---- MODULE Spec2Model ----
(***************************************************************************)
(* WhatsApp ordering assistant: the message resolver (MessageParser), the  *)
(* customer session rules (CustomerService) and the webhook that           *)
(* dispatches on the resolved intent (server.js).                          *)
(*                                                                         *)
(* A JavaScript string is a sequence of one-character strings, so that     *)
(* toLowerCase, trim and the regular expressions are computed character by *)
(* character.  A falsy string field (null or '') is the empty sequence.    *)
(* Time is in milliseconds, as Date arithmetic is.                         *)
(***************************************************************************)
EXTENDS Integers, Sequences, FiniteSets, TLC

VARIABLES
    customers,  \* the customers table: phone -> row
    now,        \* the wall clock, ms
    req,        \* the webhook request being served, and what became of it
    menu,       \* menu.json: the catalog, in file order
    ownerPhone, \* process.env.RESTAURANT_OWNER_PHONE
    orders,     \* the orders table: the rows in the order of their insertion
    shown,      \* the order ids of the owner's last orders listing, as numbered
    racing      \* the webhook requests served at the same time, where they overlap

vars == <<customers, now, req, menu, ownerPhone, orders, shown, racing>>

----------------------------------------------------------------------------
(* Characters and the String methods the code uses *)

LowerLetters ==
    {"a","b","c","d","e","f","g","h","i","j","k","l","m",
     "n","o","p","q","r","s","t","u","v","w","x","y","z"}

UpperLetters ==
    {"A","B","C","D","E","F","G","H","I","J","K","L","M",
     "N","O","P","Q","R","S","T","U","V","W","X","Y","Z"}

Digits == {"0","1","2","3","4","5","6","7","8","9"}

Letters == LowerLetters \cup UpperLetters

\* \s of a regular expression, and what trim() removes
WhiteSpace == {" ", "\t", "\n"}

\* what . of a regular expression does not match
LineTerminators == {"\n"}

\* \w of a regular expression
WordChars == Letters \cup Digits \cup {"_"}

LowerOf ==
    "A" :> "a" @@ "B" :> "b" @@ "C" :> "c" @@ "D" :> "d" @@ "E" :> "e" @@
    "F" :> "f" @@ "G" :> "g" @@ "H" :> "h" @@ "I" :> "i" @@ "J" :> "j" @@
    "K" :> "k" @@ "L" :> "l" @@ "M" :> "m" @@ "N" :> "n" @@ "O" :> "o" @@
    "P" :> "p" @@ "Q" :> "q" @@ "R" :> "r" @@ "S" :> "s" @@ "T" :> "t" @@
    "U" :> "u" @@ "V" :> "v" @@ "W" :> "w" @@ "X" :> "x" @@ "Y" :> "y" @@
    "Z" :> "z"

UpperOf ==
    "a" :> "A" @@ "b" :> "B" @@ "c" :> "C" @@ "d" :> "D" @@ "e" :> "E" @@
    "f" :> "F" @@ "g" :> "G" @@ "h" :> "H" @@ "i" :> "I" @@ "j" :> "J" @@
    "k" :> "K" @@ "l" :> "L" @@ "m" :> "M" @@ "n" :> "N" @@ "o" :> "O" @@
    "p" :> "P" @@ "q" :> "Q" @@ "r" :> "R" @@ "s" :> "S" @@ "t" :> "T" @@
    "u" :> "U" @@ "v" :> "V" @@ "w" :> "W" @@ "x" :> "X" @@ "y" :> "Y" @@
    "z" :> "Z"

ToLowerChar(c) == IF c \in UpperLetters THEN LowerOf[c] ELSE c

ToUpperChar(c) == IF c \in LowerLetters THEN UpperOf[c] ELSE c

\* String.prototype.toLowerCase
ToLowerCase(s) == [i \in 1..Len(s) |-> ToLowerChar(s[i])]

SetMin(S) == CHOOSE m \in S : \A k \in S : m <= k

SetMax(S) == CHOOSE m \in S : \A k \in S : k <= m

\* String.prototype.trim
Trim(s) ==
    LET ink == {i \in 1..Len(s) : s[i] \notin WhiteSpace}
    IN  IF ink = {} THEN <<>> ELSE SubSeq(s, SetMin(ink), SetMax(ink))

\* s.slice(i - 1): the rest of s from position i on
From(s, i) == SubSeq(s, i, Len(s))

StartsWith(s, p) == Len(s) >= Len(p) /\ SubSeq(s, 1, Len(p)) = p

\* p occurs in s at position i
OccursAt(s, p, i) ==
    i >= 1 /\ i + Len(p) - 1 <= Len(s) /\ SubSeq(s, i, i + Len(p) - 1) = p

\* String.prototype.includes
Includes(s, p) == \E i \in 1..(Len(s) + 1) : OccursAt(s, p, i)

\* the positions where some word of ws occurs in s followed by a \s character:
\* the unanchored pattern /(w1|w2|...)\s/
SomeWordThenSpace(s, ws) ==
    \E w \in ws : \E i \in 1..Len(s) :
        OccursAt(s, w, i) /\ i + Len(w) <= Len(s) /\ s[i + Len(w)] \in WhiteSpace

\* every character of s is in the class cs
AllIn(s, cs) == \A i \in 1..Len(s) : s[i] \in cs

\* the length of the longest run of \s characters at the start of s
LeadingSpaces(s) ==
    LET ink == {i \in 1..Len(s) : s[i] \notin WhiteSpace}
    IN  IF ink = {} THEN Len(s) ELSE SetMin(ink) - 1

----------------------------------------------------------------------------
(* Words of the grammars *)

sp == <<" ">>

\* the words of the patterns and keyword lists, spelt as character sequences
W ==
    [pay |-> <<"p","a","y">>,
     cod |-> <<"c","o","d">>,
     upi |-> <<"u","p","i">>,
     paid |-> <<"p","a","i","d">>,
     payment |-> <<"p","a","y","m","e","n","t">>,
     confirm |-> <<"c","o","n","f","i","r","m">>,
     options |-> <<"o","p","t","i","o","n","s">>,
     status |-> <<"s","t","a","t","u","s">>,
     help |-> <<"h","e","l","p">>,
     menu |-> <<"m","e","n","u">>,
     hi |-> <<"h","i">>,
     hello |-> <<"h","e","l","l","o">>,
     order |-> <<"o","r","d","e","r">>,
     search |-> <<"s","e","a","r","c","h">>,
     yes |-> <<"y","e","s">>,
     no |-> <<"n","o">>,
     ok |-> <<"o","k">>,
     thanks |-> <<"t","h","a","n","k","s">>,
     thank |-> <<"t","h","a","n","k">>,
     you |-> <<"y","o","u">>,
     want |-> <<"w","a","n","t">>,
     get |-> <<"g","e","t">>,
     me |-> <<"m","e">>,
     i |-> <<"i">>,
     my |-> <<"m","y">>,
     name |-> <<"n","a","m","e">>,
     is |-> <<"i","s">>,
     am |-> <<"a","m">>,
     im |-> <<"i","'","m">>,
     call |-> <<"c","a","l","l">>,
     location |-> <<"l","o","c","a","t","i","o","n">>,
     at |-> <<"a","t">>,
     live |-> <<"l","i","v","e">>,
     address |-> <<"a","d","d","r","e","s","s">>,
     for |-> <<"f","o","r">>,
     how |-> <<"h","o","w">>,
     commands |-> <<"c","o","m","m","a","n","d","s">>,
     instructions |-> <<"i","n","s","t","r","u","c","t","i","o","n","s">>,
     guide |-> <<"g","u","i","d","e">>,
     orders |-> <<"o","r","d","e","r","s">>,
     recent |-> <<"r","e","c","e","n","t">>,
     check |-> <<"c","h","e","c","k">>,
     hey |-> <<"h","e","y">>,
     good |-> <<"g","o","o","d">>,
     morning |-> <<"m","o","r","n","i","n","g">>,
     afternoon |-> <<"a","f","t","e","r","n","o","o","n">>,
     evening |-> <<"e","v","e","n","i","n","g">>,
     food |-> <<"f","o","o","d">>,
     items |-> <<"i","t","e","m","s">>,
     item |-> <<"i","t","e","m">>,
     available |-> <<"a","v","a","i","l","a","b","l","e">>,
     what |-> <<"w","h","a","t">>,
     do |-> <<"d","o">>,
     have |-> <<"h","a","v","e">>,
     find |-> <<"f","i","n","d">>,
     show |-> <<"s","h","o","w">>,
     all |-> <<"a","l","l">>,
     today |-> <<"t","o","d","a","y">>,
     pending |-> <<"p","e","n","d","i","n","g">>,
     completed |-> <<"c","o","m","p","l","e","t","e","d">>,
     complete |-> <<"c","o","m","p","l","e","t","e">>,
     done |-> <<"d","o","n","e">>,
     cancel |-> <<"c","a","n","c","e","l">>,
     stats |-> <<"s","t","a","t","s">>,
     summary |-> <<"s","u","m","m","a","r","y">>,
     dashboard |-> <<"d","a","s","h","b","o","a","r","d">>,
     manage |-> <<"m","a","n","a","g","e">>,
     admin |-> <<"a","d","m","i","n">>,
     add |-> <<"a","d","d">>,
     edit |-> <<"e","d","i","t">>,
     price |-> <<"p","r","i","c","e">>,
     delete |-> <<"d","e","l","e","t","e">>,
     toggle |-> <<"t","o","g","g","l","e">>,
     and |-> <<"a","n","d">>,
     delivery |-> <<"d","e","l","i","v","e","r","y">>,
     pickup |-> <<"p","i","c","k","u","p">>,
     takeaway |-> <<"t","a","k","e","a","w","a","y">>,
     dinein |-> <<"d","i","n","e","-","i","n">>,
     please |-> <<"p","l","e","a","s","e">>,
     urgent |-> <<"u","r","g","e","n","t">>,
     asap |-> <<"a","s","a","p">>,
     now |-> <<"n","o","w">>]

\* 'Customer', the default of the name column
PlaceholderName == <<"C","u","s","t","o","m","e","r">>

----------------------------------------------------------------------------
(* The customers table (models/database.js) and CustomerService *)

\* no row for the phone: Customer.findOne resolves to null
NoRow == [exists |-> FALSE]

\* lastLocationUpdate: null
NoDate == -1

\* 30 * 60 * 1000 ms, the freshness window of needsCurrentLocation
SessionWindowMs == 1800000

\* 24 * 60 * 60 * 1000 ms: from the start of a day to the start of the next
DayMs == 86400000

\* the default limit of getOrdersForOwner
OwnerListLimit == 500

\* orders.slice(0, 8) of handleOwnerOrdersRequest
ShownLimit == 8

\* getOrdersForOwner('pending', 50) of handleOwnerCompleteOrder
CompleteListLimit == 50

\* getCustomerOrders(customerPhone, 5) of handlePaymentConfirmation
RecentOrdersLimit == 5

NameMinLen == 2
NameMaxLen == 50
LocationMinLen == 3
LocationMaxLen == 200

\* Customer.create with the column defaults of the model
NewRow(name) ==
    [exists |-> TRUE, name |-> name, location |-> <<>>,
     currentLocation |-> <<>>, lastLocationUpdate |-> NoDate,
     sessionActive |-> FALSE, totalOrders |-> 0]

\* CustomerService.isNewCustomer, on the row getCustomer found
isNewCustomer(c) ==
    \/ ~c.exists
    \/ c.name = <<>>
    \/ c.name = PlaceholderName

needsCurrentLocation_NoWindow(c, t) ==
    IF ~c.exists \/ c.name = <<>> \/ c.name = PlaceholderName
    THEN FALSE
    ELSE \/ c.currentLocation = <<>>
         \/ c.lastLocationUpdate = NoDate
         \/ ~c.sessionActive

needsCurrentLocation_Inclusive(c, t) ==
    IF ~c.exists \/ c.name = <<>> \/ c.name = PlaceholderName
    THEN FALSE
    ELSE \/ c.currentLocation = <<>>
         \/ c.lastLocationUpdate = NoDate
         \/ (t - c.lastLocationUpdate) >= SessionWindowMs
         \/ ~c.sessionActive

\* CustomerService.needsCurrentLocation at wall-clock time t
needsCurrentLocation(c, t) ==
    IF ~c.exists \/ c.name = <<>> \/ c.name = PlaceholderName
    THEN FALSE
    ELSE \/ c.currentLocation = <<>>
         \/ c.lastLocationUpdate = NoDate
         \/ (t - c.lastLocationUpdate) > SessionWindowMs
         \/ ~c.sessionActive

\* CustomerService.needsLocation
needsLocation(c) ==
    /\ c.exists
    /\ c.name # <<>>
    /\ c.name # PlaceholderName
    /\ c.location = <<>>

\* CustomerService.isOnboardingComplete
isOnboardingComplete(c) ==
    /\ c.exists
    /\ c.name # <<>>
    /\ c.name # PlaceholderName
    /\ c.location # <<>>

\* {}
EmptyObject == [k \in {} |-> k]

\* a function that returned null
JsNull == [null |-> TRUE]

IsNull(r) == "null" \in DOMAIN r

\* the first of the prefixes that s starts with (case-insensitively) removed:
\* s.replace(/^(p1|p2|...)/i, '')
StripPrefix(s, prefixes) ==
    LET hit == {i \in 1..Len(prefixes) : StartsWith(ToLowerCase(s), prefixes[i])}
    IN  IF hit = {} THEN s ELSE From(s, Len(prefixes[SetMin(hit)]) + 1)

\* s.replace(/\b\w/g, l => l.toUpperCase())
TitleCase(s) ==
    [i \in 1..Len(s) |->
        IF s[i] \in WordChars /\ (i = 1 \/ s[i - 1] \notin WordChars)
        THEN ToUpperChar(s[i]) ELSE s[i]]

NameSkipMessages ==
    {W.menu, W.help, W.hi, W.hello, W.order, W.status, W.search,
     W.yes, W.no, W.ok, W.thanks, W.thank \o sp \o W.you,
     W.payment, W.pay, W.paid,
     W.payment \o sp \o W.help, W.payment \o sp \o W.options,
     W.payment \o sp \o W.status, W.pay \o sp \o W.cod, W.pay \o sp \o W.upi}

LocationSkipMessages_NoHelp ==
    {W.menu, W.hi, W.hello, W.order, W.status, W.search,
     W.yes, W.no, W.ok, W.thanks, W.thank \o sp \o W.you}

LocationSkipMessages ==
    {W.menu, W.help, W.hi, W.hello, W.order, W.status, W.search,
     W.yes, W.no, W.ok, W.thanks, W.thank \o sp \o W.you}

OrderVerbs == {W.order, W.want, W.get \o sp \o W.me, W.i \o sp \o W.want}

NamePrefixes ==
    << W.my \o sp \o W.name \o sp \o W.is, W.i \o sp \o W.am, W.im,
       W.name \o sp \o W.is, W.call \o sp \o W.me >>

LocationPrefixes ==
    << W.my \o sp \o W.location \o sp \o W.is, W.i \o sp \o W.am \o sp \o W.at,
       W.im \o sp \o W.at, W.location \o sp \o W.is,
       W.i \o sp \o W.live \o sp \o W.at, W.address \o sp \o W.is >>

\* [a-zA-Z\s\-'.]
NameChars == Letters \cup WhiteSpace \cup {"-", "'", "."}

\* [a-zA-Z0-9\s\-',.()\/#&]
LocationChars ==
    Letters \cup Digits \cup WhiteSpace \cup {"-", "'", ",", ".", "(", ")", "/", "#", "&"}

\* CustomerService.parseNameResponse
parseNameResponse(message) ==
    LET normalizedMessage == Trim(message)
        lower == ToLowerCase(normalizedMessage)
        cleanName == Trim(StripPrefix(normalizedMessage, NamePrefixes))
    IN  IF lower \in NameSkipMessages THEN JsNull
        ELSE IF SomeWordThenSpace(lower, OrderVerbs) THEN JsNull
        ELSE IF \E w \in {W.pay, W.payment, W.paid} :
                       /\ StartsWith(lower, w)
                       /\ Len(lower) > Len(w)
                       /\ lower[Len(w) + 1] \in WhiteSpace
             THEN JsNull
        ELSE IF /\ Len(normalizedMessage) >= NameMinLen
                /\ Len(normalizedMessage) <= NameMaxLen
                /\ Len(cleanName) >= NameMinLen
                /\ Len(cleanName) <= NameMaxLen
                /\ AllIn(cleanName, NameChars)
             THEN [name |-> TitleCase(cleanName)]
        ELSE JsNull

\* CustomerService.parseLocationResponse
parseLocationResponse(message) ==
    LET normalizedMessage == Trim(message)
        lower == ToLowerCase(normalizedMessage)
        cleanLocation == Trim(StripPrefix(normalizedMessage, LocationPrefixes))
    IN  IF lower \in LocationSkipMessages THEN JsNull
        ELSE IF SomeWordThenSpace(lower, OrderVerbs) THEN JsNull
        ELSE IF /\ Len(normalizedMessage) >= LocationMinLen
                /\ Len(normalizedMessage) <= LocationMaxLen
                /\ Len(cleanLocation) >= 1
                /\ AllIn(cleanLocation, LocationChars)
             THEN [location |-> cleanLocation]
        ELSE JsNull

----------------------------------------------------------------------------
(* MessageParser: payment commands *)


\* no character of s is a line terminator: s can be matched by .*
NoLineBreak(s) == \A i \in 1..Len(s) : s[i] \notin LineTerminators

\* the numbers k of \s characters that \s+ can take at the start of rest so that
\* .+$ matches what follows: the pattern /^<verb>\s+(.+)$/ after its verb
SpaceThenRest(rest) ==
    {k \in 1..LeadingSpaces(rest) : k < Len(rest) /\ NoLineBreak(From(rest, k + 1))}

\* /^<verb>\s+.+$/
VerbThenRest(m, verb) ==
    StartsWith(m, verb) /\ SpaceThenRest(From(m, Len(verb) + 1)) # {}

\* the group of /^<verb>\s+(.+)$/: \s+ is greedy
VerbRestGroup(m, verb) ==
    LET rest == From(m, Len(verb) + 1)
    IN  From(rest, SetMax(SpaceThenRest(rest)) + 1)

PayMethods == {W.cod, W.upi}

PaymentTopics == {W.options, W.status, W.help}

PaymentVerbs == << W.paid, W.confirm \o sp \o W.payment >>

isPaymentCommand_NoPay(message) ==
    \/ \E t \in PaymentTopics : message = W.payment \o sp \o t
    \/ VerbThenRest(message, W.paid)
    \/ VerbThenRest(message, W.confirm \o sp \o W.payment)

\* MessageParser.isPaymentCommand
isPaymentCommand(message) ==
    \/ \E c \in PayMethods : message = W.pay \o sp \o c
    \/ \E t \in PaymentTopics : message = W.payment \o sp \o t
    \/ VerbThenRest(message, W.paid)
    \/ VerbThenRest(message, W.confirm \o sp \o W.payment)

\* MessageParser.parsePaymentCommand
parsePaymentCommand(message, customerPhone) ==
    IF \E c \in PayMethods : message = W.pay \o sp \o c
    THEN [intent |-> "select_payment_method",
          data |-> [method |-> From(message, Len(W.pay) + 2),
                    customerPhone |-> customerPhone,
                    methodMap |-> [cod |-> W.cod, upi |-> W.upi]]]
    ELSE IF \E i \in 1..2 : VerbThenRest(message, PaymentVerbs[i])
    THEN LET i == SetMin({j \in 1..2 : VerbThenRest(message, PaymentVerbs[j])})
         IN  [intent |-> "confirm_payment",
              data |-> [transactionId |-> Trim(VerbRestGroup(message, PaymentVerbs[i])),
                        customerPhone |-> customerPhone]]
    ELSE IF message = W.payment \o sp \o W.status
    THEN [intent |-> "payment_status", data |-> [customerPhone |-> customerPhone]]
    ELSE IF message = W.payment \o sp \o W.options
    THEN [intent |-> "payment_options", data |-> [customerPhone |-> customerPhone]]
    ELSE IF message = W.payment \o sp \o W.help
    THEN [intent |-> "payment_help", data |-> [customerPhone |-> customerPhone]]
    ELSE JsNull

----------------------------------------------------------------------------
(* MessageParser: keyword rules and search *)

GreetingWords ==
    {W.hi, W.hello, W.hey, W.good \o sp \o W.morning,
     W.good \o sp \o W.afternoon, W.good \o sp \o W.evening}

MenuKeywords ==
    {W.menu, W.food, W.items, W.available,
     W.what \o sp \o W.do \o sp \o W.you \o sp \o W.have, W.options}

HelpKeywords == {W.help, W.how, W.commands, W.instructions, W.guide}

StatusKeywords ==
    {W.status, W.order \o sp \o W.status, W.my \o sp \o W.orders,
     W.recent \o sp \o W.orders, W.check \o sp \o W.order}

\* MessageParser.isGreeting
isGreeting(message) == \E k \in GreetingWords : Includes(message, k)

\* MessageParser.isMenuRequest
isMenuRequest(message) == \E k \in MenuKeywords : Includes(message, k)

\* MessageParser.isHelpRequest
isHelpRequest(message) == \E k \in HelpKeywords : Includes(message, k)

\* MessageParser.isStatusRequest
isStatusRequest(message) == \E k \in StatusKeywords : Includes(message, k)

SearchVerbs ==
    << W.search, W.find, W.show \o sp \o W.me,
       W.do \o sp \o W.you \o sp \o W.have >>

\* the places where /<verb>\s+(.+)/ matches in s, unanchored
VerbPlaces(s, verb) ==
    {i \in 1..Len(s) :
        /\ OccursAt(s, verb, i)
        /\ LET rest == From(s, i + Len(verb))
           IN  \E k \in 1..LeadingSpaces(rest) :
                   k < Len(rest) /\ rest[k + 1] \notin LineTerminators}

\* the group of the leftmost match of /<verb>\s+(.+)/: \s+ and .+ are greedy
VerbGroup(s, verb) ==
    LET i == SetMin(VerbPlaces(s, verb))
        rest == From(s, i + Len(verb))
        k == SetMax({j \in 1..LeadingSpaces(rest) :
                        j < Len(rest) /\ rest[j + 1] \notin LineTerminators})
        tail == From(rest, k + 1)
        breaks == {j \in 1..Len(tail) : tail[j] \in LineTerminators}
    IN  IF breaks = {} THEN tail ELSE SubSeq(tail, 1, SetMin(breaks) - 1)

\* MessageParser.parseSearchMessage
parseSearchMessage(message) ==
    LET hits == {i \in 1..Len(SearchVerbs) : VerbPlaces(message, SearchVerbs[i]) # {}}
    IN  IF hits = {} THEN JsNull
        ELSE [searchTerm |-> Trim(VerbGroup(message, SearchVerbs[SetMin(hits)]))]

----------------------------------------------------------------------------
(* Numbers in messages *)

DigitValue ==
    "0" :> 0 @@ "1" :> 1 @@ "2" :> 2 @@ "3" :> 3 @@ "4" :> 4 @@
    "5" :> 5 @@ "6" :> 6 @@ "7" :> 7 @@ "8" :> 8 @@ "9" :> 9

\* parseInt of a string of digits
RECURSIVE ParseInt(_)
ParseInt(ds) ==
    IF ds = <<>> THEN 0
    ELSE 10 * ParseInt(SubSeq(ds, 1, Len(ds) - 1)) + DigitValue[ds[Len(ds)]]

\* the length of the run of digits of s that starts at position i
DigitRun(s, i) ==
    LET stops == {j \in i..Len(s) : s[j] \notin Digits}
    IN  IF i > Len(s) THEN 0
        ELSE IF stops = {} THEN Len(s) - i + 1
        ELSE SetMin(stops) - i

\* the length of what \d+(?:\.\d+)? takes at position i of s (0: no match)
NumberRun(s, i) ==
    LET whole == DigitRun(s, i)
        dot == i + whole
    IN  IF whole = 0 THEN 0
        ELSE IF dot <= Len(s) /\ s[dot] = "." /\ DigitRun(s, dot + 1) > 0
        THEN whole + 1 + DigitRun(s, dot + 1)
        ELSE whole

\* parseFloat of a text that \d+(?:\.\d+)? matched: the integer part, and the
\* decimals without their trailing zeros
ParseFloat(text) ==
    LET whole == DigitRun(text, 1)
        decimals == From(text, whole + 2)
        nonzero == {j \in 1..Len(decimals) : decimals[j] # "0"}
    IN  [whole |-> ParseInt(SubSeq(text, 1, whole)),
         frac |-> IF nonzero = {} THEN <<>>
                  ELSE SubSeq(decimals, 1, SetMax(nonzero))]

----------------------------------------------------------------------------
(* MessageParser: owner commands *)

\* /^<prefix>(.+)$/, with the prefix ending in its literal space
PrefixThenRest(m, prefix) ==
    /\ StartsWith(m, prefix)
    /\ Len(m) > Len(prefix)
    /\ NoLineBreak(From(m, Len(prefix) + 1))

\* (?:\s+(.+))?$ : nothing, or spaces and a description up to the end
OptionalDescription(t) == t = <<>> \/ SpaceThenRest(t) # {}

\* the lengths the lazy name group of /^add item (.+?) (\d+(?:\.\d+)?)(?:\s+(.+))?$/
\* can have in rest, the message after "add item "
AddItemSplits(rest) ==
    {g \in 1..Len(rest) :
        /\ NoLineBreak(SubSeq(rest, 1, g))
        /\ g + 1 <= Len(rest)
        /\ rest[g + 1] = " "
        /\ NumberRun(rest, g + 2) > 0
        /\ OptionalDescription(From(rest, g + 2 + NumberRun(rest, g + 2)))}

\* the lengths the lazy group of /^edit item (.+?) price (\d+(?:\.\d+)?)$/ can have
EditPriceSplits(rest) ==
    {g \in 1..Len(rest) :
        /\ NoLineBreak(SubSeq(rest, 1, g))
        /\ OccursAt(rest, sp \o W.price \o sp, g + 1)
        /\ NumberRun(rest, g + 8) > 0
        /\ g + 7 + NumberRun(rest, g + 8) = Len(rest)}

\* the lengths the lazy group of /^edit item (.+?) name (.+)$/ can have
EditNameSplits(rest) ==
    {g \in 1..Len(rest) :
        /\ NoLineBreak(SubSeq(rest, 1, g))
        /\ OccursAt(rest, sp \o W.name \o sp, g + 1)
        /\ g + 6 < Len(rest)
        /\ NoLineBreak(From(rest, g + 7))}

p_complete_order == W.complete \o sp \o W.order \o sp
p_cancel_order == W.cancel \o sp \o W.order \o sp
p_add_item == W.add \o sp \o W.item \o sp
p_edit_item == W.edit \o sp \o W.item \o sp
p_delete_item == W.delete \o sp \o W.item \o sp
p_toggle_item == W.toggle \o sp \o W.item \o sp

\* /^(complete|done) (\w+)$/
ShortComplete(m, verb) ==
    /\ StartsWith(m, verb \o sp)
    /\ Len(m) > Len(verb) + 1
    /\ AllIn(From(m, Len(verb) + 2), WordChars)

\* MessageParser.parseOwnerCommand
parseOwnerCommand(message) ==
    LET addRest == From(message, Len(p_add_item) + 1)
        editRest == From(message, Len(p_edit_item) + 1)
    IN
    IF message \in {W.orders, W.all \o sp \o W.orders}
    THEN [intent |-> "owner_orders", data |-> [filter |-> "pending"]]
    ELSE IF message = W.orders \o sp \o W.today
    THEN [intent |-> "owner_orders", data |-> [filter |-> "today"]]
    ELSE IF message = W.orders \o sp \o W.pending
    THEN [intent |-> "owner_orders", data |-> [filter |-> "pending"]]
    ELSE IF message = W.orders \o sp \o W.completed
    THEN [intent |-> "owner_orders", data |-> [filter |-> "completed"]]
    ELSE IF PrefixThenRest(message, p_complete_order)
    THEN [intent |-> "owner_complete_order",
          data |-> [orderId |-> Trim(From(message, Len(p_complete_order) + 1))]]
    ELSE IF ShortComplete(message, W.complete)
    THEN [intent |-> "owner_complete_order",
          data |-> [orderId |-> Trim(From(message, Len(W.complete) + 2))]]
    ELSE IF ShortComplete(message, W.done)
    THEN [intent |-> "owner_complete_order",
          data |-> [orderId |-> Trim(From(message, Len(W.done) + 2))]]
    ELSE IF PrefixThenRest(message, p_cancel_order)
    THEN [intent |-> "owner_cancel_order",
          data |-> [orderId |-> Trim(From(message, Len(p_cancel_order) + 1))]]
    ELSE IF message \in {W.stats, W.summary, W.dashboard}
    THEN [intent |-> "owner_stats", data |-> EmptyObject]
    ELSE IF message \in {W.menu \o sp \o W.manage, W.manage \o sp \o W.menu,
                         W.menu \o sp \o W.admin}
    THEN [intent |-> "owner_menu_manage", data |-> EmptyObject]
    ELSE IF StartsWith(message, p_add_item) /\ AddItemSplits(addRest) # {}
    THEN LET g == SetMin(AddItemSplits(addRest))
             n == NumberRun(addRest, g + 2)
             tail == From(addRest, g + 2 + n)
         IN  [intent |-> "owner_add_item",
              data |-> [name |-> Trim(SubSeq(addRest, 1, g)),
                        price |-> ParseFloat(SubSeq(addRest, g + 2, g + 1 + n)),
                        description |->
                            IF tail = <<>> THEN <<>>
                            ELSE Trim(From(tail, SetMax(SpaceThenRest(tail)) + 1))]]
    ELSE IF StartsWith(message, p_edit_item) /\ EditPriceSplits(editRest) # {}
    THEN LET g == SetMin(EditPriceSplits(editRest))
         IN  [intent |-> "owner_edit_item",
              data |-> [identifier |-> Trim(SubSeq(editRest, 1, g)),
                        updates |-> [price |-> ParseFloat(From(editRest, g + 8))]]]
    ELSE IF StartsWith(message, p_edit_item) /\ EditNameSplits(editRest) # {}
    THEN LET g == SetMin(EditNameSplits(editRest))
         IN  [intent |-> "owner_edit_item",
              data |-> [identifier |-> Trim(SubSeq(editRest, 1, g)),
                        updates |-> [name |-> Trim(From(editRest, g + 7))]]]
    ELSE IF PrefixThenRest(message, p_delete_item)
    THEN [intent |-> "owner_delete_item",
          data |-> [identifier |-> Trim(From(message, Len(p_delete_item) + 1))]]
    ELSE IF PrefixThenRest(message, p_toggle_item)
    THEN [intent |-> "owner_toggle_item",
          data |-> [identifier |-> Trim(From(message, Len(p_toggle_item) + 1))]]
    ELSE JsNull

----------------------------------------------------------------------------
(* MenuService *)

\* MenuService.findItemById: the item, or JsNull
findItemById(catalog, itemId) ==
    LET hits == {i \in 1..Len(catalog) :
                    catalog[i].id = itemId /\ catalog[i].available}
    IN  IF hits = {} THEN JsNull ELSE catalog[SetMin(hits)]

\* the places in the catalog of the items MenuService.searchItems returns
searchItems(catalog, searchTerm) ==
    {i \in 1..Len(catalog) :
        /\ catalog[i].available
        /\ Includes(ToLowerCase(catalog[i].name), ToLowerCase(searchTerm))}

----------------------------------------------------------------------------
(* MessageParser: order messages *)

OrderVerbSeq == << W.order, W.want, W.get \o sp \o W.me, W.i \o sp \o W.want >>

\* t matches /^\s+for\s+\w+.*$/
ForClause(t) ==
    LET a == LeadingSpaces(t)
        u == From(t, a + 4)
        b == LeadingSpaces(u)
    IN  /\ a >= 1
        /\ OccursAt(t, W.for, a + 1)
        /\ b >= 1
        /\ b < Len(u)
        /\ u[b + 1] \in WordChars
        /\ NoLineBreak(From(u, b + 2))

\* t matches /^\s+for\s+\w+$/
ForWordEnd(t) ==
    LET a == LeadingSpaces(t)
        u == From(t, a + 4)
        b == LeadingSpaces(u)
    IN  /\ a >= 1
        /\ OccursAt(t, W.for, a + 1)
        /\ b >= 1
        /\ b < Len(u)
        /\ AllIn(From(u, b + 1), WordChars)

\* the lengths g the lazy group (.+?) can have when it starts after k
\* characters of rest and After holds of what follows it, or nothing follows
LazyLengths(rest, k, After(_)) ==
    {g \in 1..(Len(rest) - k) :
        /\ NoLineBreak(SubSeq(rest, k + 1, k + g))
        /\ (k + g = Len(rest) \/ After(From(rest, k + g + 1)))}

\* the numbers of characters \s+ can take at the start of rest in
\* /\s+(.+?)(?:\s+for\s+\w+.*)?$/
MultiSpaces(rest) ==
    {k \in 1..LeadingSpaces(rest) : LazyLengths(rest, k, ForClause) # {}}

\* the places where the multi-item pattern matches with the v-th verb
MultiPlaces(message, v) ==
    {i \in 1..Len(message) :
        /\ OccursAt(message, OrderVerbSeq[v], i)
        /\ MultiSpaces(From(message, i + Len(OrderVerbSeq[v]))) # {}}

\* the matches of multiOrderPattern, numbered 10 * i + v for the v-th verb at
\* place i: the least is the leftmost match, with the first verb there
MultiMatchSet(message) ==
    UNION {{10 * i + v : i \in MultiPlaces(message, v)} :
           v \in 1..Len(OrderVerbSeq)}

\* multiOrderPattern matches somewhere in the message
MultiMatches(message) == MultiMatchSet(message) # {}

\* the lazy group of multiOrderPattern in rest, what follows the verb, given
\* the characters k that \s+ took
MultiLazy(rest, k) ==
    SubSeq(rest, k + 1, k + SetMin(LazyLengths(rest, k, ForClause)))

\* the group in rest: \s+ is greedy
MultiGroup(rest) == MultiLazy(rest, SetMax(MultiSpaces(rest)))

\* the group of the match iv
MultiGroupAt(message, iv) ==
    MultiGroup(From(message, (iv \div 10) + Len(OrderVerbSeq[iv % 10])))

\* match[1] of multiOrderPattern
MultiItemsText(message) == MultiGroupAt(message, SetMin(MultiMatchSet(message)))

\* the length of the match of the separator pattern
\* /\s*(?:,\s*and\s*|,\s*|\s+and\s+|\s*\+\s*)\s*/ at position p of t (0: none)
SeparatorAt(t, p) ==
    LET a == LeadingSpaces(From(t, p))
        q == p + a
        afterComma == q + 1 + LeadingSpaces(From(t, q + 1))
    IN  IF q > Len(t) THEN 0
        ELSE IF t[q] = "," /\ OccursAt(t, W.and, afterComma)
        THEN afterComma + 3 + LeadingSpaces(From(t, afterComma + 3)) - p
        ELSE IF t[q] = ","
        THEN afterComma - p
        ELSE IF a >= 1 /\ OccursAt(t, W.and, q) /\ LeadingSpaces(From(t, q + 3)) >= 1
        THEN a + 3 + LeadingSpaces(From(t, q + 3))
        ELSE IF t[q] = "+"
        THEN a + 1 + LeadingSpaces(From(t, q + 1))
        ELSE 0

\* itemsText.split(separator)
RECURSIVE SplitItems(_)

\* t split at its leftmost separator, which starts at p
SplitAt(t, p) ==
    << SubSeq(t, 1, p - 1) >> \o SplitItems(From(t, p + SeparatorAt(t, p)))

\* t split, given the places where a separator matches
SplitCuts(t, cuts) == IF cuts = {} THEN << t >> ELSE SplitAt(t, SetMin(cuts))

SplitItems(t) == SplitCuts(t, {p \in 1..Len(t) : SeparatorAt(t, p) > 0})

\* s.replace(/<Clause>$/, '') for a clause that starts with \s+: s up to the
\* leftmost place where the clause matches through to the end
CutClause(s, Clause(_)) ==
    LET cuts == {p \in 1..Len(s) : s[p] \in WhiteSpace /\ Clause(From(s, p))}
    IN  IF cuts = {} THEN s ELSE SubSeq(s, 1, SetMin(cuts) - 1)

ServiceWords == {W.delivery, W.pickup, W.takeaway, W.dinein}

HurryWords == {W.please, W.urgent, W.asap, W.now}

\* t matches /^\s+(for\s+)?(delivery|pickup|takeaway|dine-in).*$/
ServiceClause(t) ==
    LET a == LeadingSpaces(t)
        u == From(t, a + 1)
        f == From(u, 4)
        b == LeadingSpaces(f)
    IN  /\ a >= 1
        /\ \/ \E w \in ServiceWords :
                  StartsWith(u, w) /\ NoLineBreak(From(u, Len(w) + 1))
           \/ /\ StartsWith(u, W.for)
              /\ b >= 1
              /\ \E w \in ServiceWords :
                     /\ StartsWith(From(f, b + 1), w)
                     /\ NoLineBreak(From(f, b + 1 + Len(w)))

\* t matches /^\s+(please|urgent|asap|now).*$/
HurryClause(t) ==
    LET a == LeadingSpaces(t)
        u == From(t, a + 1)
    IN  /\ a >= 1
        /\ \E w \in HurryWords :
               StartsWith(u, w) /\ NoLineBreak(From(u, Len(w) + 1))

\* MessageParser.cleanItemName
cleanItemName(itemName) ==
    Trim(CutClause(CutClause(CutClause(itemName, ForClause), ServiceClause),
                   HurryClause))

\* the item data of a resolved line, or JsNull: if (menuItem && quantity > 0)
ItemData(quantity, menuItem) ==
    IF ~IsNull(menuItem) /\ quantity > 0
    THEN [quantity |-> quantity, menuItem |-> menuItem,
          total |-> quantity * menuItem.price]
    ELSE JsNull

FirstByName_Last(catalog, name) ==
    LET found == searchItems(catalog, cleanItemName(Trim(name)))
    IN  IF found = {} THEN JsNull ELSE catalog[SetMax(found)]

\* searchItems(cleanItemName(name))[0], or JsNull
FirstByName(catalog, name) ==
    LET found == searchItems(catalog, cleanItemName(Trim(name)))
    IN  IF found = {} THEN JsNull ELSE catalog[SetMin(found)]

\* /(\d+)\s+item\s+(\d+)/ matches with its quantity starting at p
QtyItemAt(s, p) ==
    LET d == DigitRun(s, p)
        a == LeadingSpaces(From(s, p + d))
        b == LeadingSpaces(From(s, p + d + a + 4))
    IN  /\ d > 0
        /\ a >= 1
        /\ OccursAt(s, W.item, p + d + a)
        /\ b >= 1
        /\ DigitRun(s, p + d + a + 4 + b) > 0

\* the item id of that match
QtyItemId(s, p) ==
    LET d == DigitRun(s, p)
        a == LeadingSpaces(From(s, p + d))
        b == LeadingSpaces(From(s, p + d + a + 4))
        at == p + d + a + 4 + b
    IN  ParseInt(SubSeq(s, at, at + DigitRun(s, at) - 1))

\* /(\d+)\s+#(\d+)/ matches with its quantity starting at p
QtyHashAt(s, p) ==
    LET d == DigitRun(s, p)
        a == LeadingSpaces(From(s, p + d))
    IN  /\ d > 0
        /\ a >= 1
        /\ p + d + a <= Len(s)
        /\ s[p + d + a] = "#"
        /\ DigitRun(s, p + d + a + 1) > 0

QtyHashId(s, p) ==
    LET d == DigitRun(s, p)
        a == LeadingSpaces(From(s, p + d))
        at == p + d + a + 1
    IN  ParseInt(SubSeq(s, at, at + DigitRun(s, at) - 1))

\* the numbers of characters \s+ can take at the start of rest in /\s+(.+)/
NameSpaces(rest) ==
    {k \in 1..LeadingSpaces(rest) :
        k < Len(rest) /\ rest[k + 1] \notin LineTerminators}

\* /(\d+)\s+(.+)/ matches with its quantity starting at p
QtyNameAt(s, p) ==
    DigitRun(s, p) > 0 /\ NameSpaces(From(s, p + DigitRun(s, p))) # {}

\* the group (.+) of that match: greedy, up to the first line terminator
QtyNameGroup(s, p) ==
    LET rest == From(s, p + DigitRun(s, p))
        tail == From(rest, SetMax(NameSpaces(rest)) + 1)
        breaks == {j \in 1..Len(tail) : tail[j] \in LineTerminators}
    IN  IF breaks = {} THEN tail ELSE SubSeq(tail, 1, SetMin(breaks) - 1)

\* the quantity (\d+) of a match that starts at p
QtyAt(s, p) == ParseInt(SubSeq(s, p, p + DigitRun(s, p) - 1))

\* a, unless it is null: then b
OrElse(a, b) == IF ~IsNull(a) THEN a ELSE b

\* one pattern of parseSingleItemSegment or parseSingleOrderMessage: JsNull
\* without a match, else the item data of the leftmost match, whose item
\* Lookup finds from the place of the quantity
PatternResult(s, places, Lookup(_)) ==
    IF places = {} THEN JsNull
    ELSE ItemData(QtyAt(s, SetMin(places)), Lookup(SetMin(places)))

\* MessageParser.parseSingleItemSegment
parseSingleItemSegment(catalog, segment) ==
    LET ById(p) == findItemById(catalog, QtyItemId(segment, p))
        ByHash(p) == findItemById(catalog, QtyHashId(segment, p))
        ByName(p) == FirstByName(catalog, QtyNameGroup(segment, p))
    IN  OrElse(PatternResult(segment,
                             {p \in 1..Len(segment) : QtyItemAt(segment, p)}, ById),
        OrElse(PatternResult(segment,
                             {p \in 1..Len(segment) : QtyHashAt(segment, p)}, ByHash),
               PatternResult(segment,
                             {p \in 1..Len(segment) : QtyNameAt(segment, p)}, ByName)))

\* orderItems with the item data of one more segment, if it resolved
PushItem(orderItems, itemData) ==
    IF IsNull(itemData) THEN orderItems ELSE Append(orderItems, itemData)

\* the loop of parseMultipleOrderMessage: the item data of the segments that
\* resolved, in message order
RECURSIVE ResolvedItems(_, _)
ResolvedItems(catalog, segments) ==
    IF segments = <<>> THEN <<>>
    ELSE PushItem(ResolvedItems(catalog, SubSeq(segments, 1, Len(segments) - 1)),
                  parseSingleItemSegment(catalog, Trim(segments[Len(segments)])))

RECURSIVE SumTotals(_)
SumTotals(items) ==
    IF items = <<>> THEN 0 ELSE Head(items).total + SumTotals(Tail(items))

OrderShape_FirstTotal(orderItems) ==
    IF Len(orderItems) > 1
    THEN [items |-> orderItems, totalAmount |-> orderItems[1].total,
          isMultipleItems |-> TRUE]
    ELSE IF Len(orderItems) = 1
    THEN [quantity |-> orderItems[1].quantity,
          menuItem |-> orderItems[1].menuItem,
          total |-> orderItems[1].total]
    ELSE JsNull

\* lines 235-250: the order data for the resolved items
OrderShape(orderItems) ==
    IF Len(orderItems) > 1
    THEN [items |-> orderItems, totalAmount |-> SumTotals(orderItems),
          isMultipleItems |-> TRUE]
    ELSE IF Len(orderItems) = 1
    THEN [quantity |-> orderItems[1].quantity,
          menuItem |-> orderItems[1].menuItem,
          total |-> orderItems[1].total]
    ELSE JsNull

\* MessageParser.parseMultipleOrderMessage
parseMultipleOrderMessage(catalog, message) ==
    IF ~MultiMatches(message) THEN JsNull
    ELSE OrderShape(ResolvedItems(catalog, SplitItems(Trim(MultiItemsText(message)))))

\* the numbers of characters the last \s+ can take in
\* /<verb>\s+(\d+)\s+(.+?)(?:\s+for\s+\w+)?$/, in what follows the quantity
SingleSpaces(rest) ==
    {k \in 1..LeadingSpaces(rest) : LazyLengths(rest, k, ForWordEnd) # {}}

\* the place of the quantity when the v-th verb occurs at i, followed by \s+
\* and a digit (0: no such match)
VerbQtyAt(message, v, i) ==
    LET rest == From(message, i + Len(OrderVerbSeq[v]))
        a == LeadingSpaces(rest)
    IN  IF OccursAt(message, OrderVerbSeq[v], i) /\ a >= 1
           /\ DigitRun(rest, a + 1) > 0
        THEN i + Len(OrderVerbSeq[v]) + a
        ELSE 0

\* the places of the quantity in the matches of /<verb>\s+<Pattern>/, each
\* with the place i of its verb and the number v of the verb, as 10 * i + v,
\* where Pattern(message, p) tells whether the rest matches from the quantity
\* at p: the least of them is the leftmost match, with the first verb there
VerbMatches(message, Pattern(_, _)) ==
    {iv \in {10 * i + v : i \in 1..Len(message), v \in 1..Len(OrderVerbSeq)} :
        /\ VerbQtyAt(message, iv % 10, iv \div 10) > 0
        /\ Pattern(message, VerbQtyAt(message, iv % 10, iv \div 10))}

\* the place of the quantity in the match iv
MatchQty(message, iv) == VerbQtyAt(message, iv % 10, iv \div 10)

\* one pattern of parseSingleOrderMessage
VerbPatternResult(message, matches, Lookup(_)) ==
    IF matches = {} THEN JsNull
    ELSE ItemData(QtyAt(message, MatchQty(message, SetMin(matches))),
                  Lookup(MatchQty(message, SetMin(matches))))

\* (\d+)\s+(.+?)(?:\s+for\s+\w+)?$ matches with its quantity starting at p
QtyNameEndAt(s, p) ==
    DigitRun(s, p) > 0 /\ SingleSpaces(From(s, p + DigitRun(s, p))) # {}

\* the lazy group (.+?) of that match, given the characters k that \s+ took
QtyNameEndLazy(rest, k) ==
    SubSeq(rest, k + 1, k + SetMin(LazyLengths(rest, k, ForWordEnd)))

QtyNameEndGroup(s, p) ==
    QtyNameEndLazy(From(s, p + DigitRun(s, p)),
                   SetMax(SingleSpaces(From(s, p + DigitRun(s, p)))))

\* MessageParser.parseSingleOrderMessage
parseSingleOrderMessage(catalog, message) ==
    LET ById(p) == findItemById(catalog, QtyItemId(message, p))
        ByHash(p) == findItemById(catalog, QtyHashId(message, p))
        ByName(p) == FirstByName(catalog, QtyNameEndGroup(message, p))
    IN  OrElse(VerbPatternResult(message, VerbMatches(message, QtyItemAt), ById),
        OrElse(VerbPatternResult(message, VerbMatches(message, QtyHashAt), ByHash),
               VerbPatternResult(message, VerbMatches(message, QtyNameEndAt), ByName)))

parseOrderMessage_MultiOnly(catalog, message) ==
    parseMultipleOrderMessage(catalog, message)

\* MessageParser.parseOrderMessage
parseOrderMessage(catalog, message) ==
    OrElse(parseMultipleOrderMessage(catalog, message),
           parseSingleOrderMessage(catalog, message))

----------------------------------------------------------------------------
(* MessageParser.parseMessage *)

\* a request without Body: message is undefined
NoBody == [undefined |-> TRUE]

\* a request whose Body is the text
TextBody(text) == [text |-> text]

HasBody(body) == "text" \in DOMAIN body

\* message.toLowerCase() on a request without Body: a TypeError
Threw == [threw |-> TRUE]

HasThrown(r) == "threw" \in DOMAIN r

isOwnerPhone_Nobody(owner, phone) == FALSE

isOwnerPhone_Anyone(owner, phone) == TRUE

\* MessageParser.isOwnerPhone
isOwnerPhone(owner, phone) == phone = owner

\* lines 37-49: the sender is new
NameStep(nameData, customerPhone) ==
    IF ~IsNull(nameData)
    THEN [intent |-> "save_customer_name",
          data |-> [name |-> nameData.name, phone |-> customerPhone]]
    ELSE [intent |-> "request_customer_name", data |-> [phone |-> customerPhone]]

\* lines 52-64: the sender has a name and no location
LocationStep(locationData, customerPhone) ==
    IF ~IsNull(locationData)
    THEN [intent |-> "save_customer_location",
          data |-> [location |-> locationData.location, phone |-> customerPhone]]
    ELSE [intent |-> "request_customer_location", data |-> [phone |-> customerPhone]]

\* lines 67-79: the sender is to give the location of this session
CurrentLocationStep(locationData, customerPhone) ==
    IF ~IsNull(locationData)
    THEN [intent |-> "save_current_location",
          data |-> [currentLocation |-> locationData.location,
                    phone |-> customerPhone]]
    ELSE [intent |-> "request_current_location", data |-> [phone |-> customerPhone]]

GateIntercept_CurrentFirst(c, t, message, customerPhone) ==
    IF isNewCustomer(c)
    THEN NameStep(parseNameResponse(message), customerPhone)
    ELSE IF needsCurrentLocation(c, t)
    THEN CurrentLocationStep(parseLocationResponse(message), customerPhone)
    ELSE IF needsLocation(c)
    THEN LocationStep(parseLocationResponse(message), customerPhone)
    ELSE JsNull

\* lines 35-80: the onboarding interception for a sender that is not the owner;
\* JsNull when none of the three checks holds
GateIntercept(c, t, message, customerPhone) ==
    IF isNewCustomer(c)
    THEN NameStep(parseNameResponse(message), customerPhone)
    ELSE IF needsLocation(c)
    THEN LocationStep(parseLocationResponse(message), customerPhone)
    ELSE IF needsCurrentLocation(c, t)
    THEN CurrentLocationStep(parseLocationResponse(message), customerPhone)
    ELSE JsNull

\* lines 84-90
OrderRule(orderData, otherwise) ==
    IF ~IsNull(orderData)
    THEN [intent |-> "place_order", data |-> orderData]
    ELSE otherwise

\* lines 109-114
OwnerRule(isOwner, normalizedMessage, otherwise) ==
    IF isOwner THEN OrElse(parseOwnerCommand(normalizedMessage), otherwise)
    ELSE otherwise

\* lines 125-131
SearchRule(searchData, otherwise) ==
    IF ~IsNull(searchData)
    THEN [intent |-> "search_menu", data |-> searchData]
    ELSE otherwise

ResolveRules_HelpFirst(catalog, owner, message, normalizedMessage, customerPhone) ==
    IF isHelpRequest(normalizedMessage)
    THEN [intent |-> "help", data |-> EmptyObject]
    ELSE OrderRule(parseOrderMessage(catalog, normalizedMessage),
        IF isStatusRequest(normalizedMessage)
        THEN [intent |-> "order_status", data |-> [customerPhone |-> customerPhone]]
        ELSE OwnerRule(isOwnerPhone(owner, customerPhone), normalizedMessage,
            IF isGreeting(normalizedMessage) \/ isMenuRequest(normalizedMessage)
            THEN [intent |-> "show_menu", data |-> EmptyObject]
            ELSE SearchRule(parseSearchMessage(normalizedMessage),
                            [intent |-> "unknown",
                             data |-> [originalMessage |-> message]])))

\* lines 83-137: the rules after the gate
ResolveRules(catalog, owner, message, normalizedMessage, customerPhone) ==
    OrderRule(parseOrderMessage(catalog, normalizedMessage),
        IF isHelpRequest(normalizedMessage)
        THEN [intent |-> "help", data |-> EmptyObject]
        ELSE IF isStatusRequest(normalizedMessage)
        THEN [intent |-> "order_status", data |-> [customerPhone |-> customerPhone]]
        ELSE OwnerRule(isOwnerPhone(owner, customerPhone), normalizedMessage,
            IF isGreeting(normalizedMessage) \/ isMenuRequest(normalizedMessage)
            THEN [intent |-> "show_menu", data |-> EmptyObject]
            ELSE SearchRule(parseSearchMessage(normalizedMessage),
                            [intent |-> "unknown",
                             data |-> [originalMessage |-> message]])))

\* lines 22-137, given the normalized message
ParseNormalized(table, catalog, owner, t, message, normalizedMessage, customerPhone) ==
    IF isPaymentCommand(normalizedMessage)
    THEN parsePaymentCommand(normalizedMessage, customerPhone)
    ELSE OrElse(IF isOwnerPhone(owner, customerPhone) THEN JsNull
                ELSE GateIntercept(table[customerPhone], t, message, customerPhone),
                ResolveRules(catalog, owner, message, normalizedMessage,
                             customerPhone))

\* lines 31-33: the three checks parseMessage makes of the sender's row, when
\* it comes to make them; JsNull when it returns or throws before
GateChecks(table, owner, t, body, customerPhone) ==
    IF ~HasBody(body) THEN JsNull
    ELSE IF isPaymentCommand(Trim(ToLowerCase(body.text))) THEN JsNull
    ELSE IF isOwnerPhone(owner, customerPhone) THEN JsNull
    ELSE [isNewCustomer |-> isNewCustomer(table[customerPhone]),
          needsLocation |-> needsLocation(table[customerPhone]),
          needsCurrentLocation |-> needsCurrentLocation(table[customerPhone], t)]

\* MessageParser.parseMessage on the Body of the request (NoBody: the
\* request has none), with the table, the catalog and the clock it reads
parseMessage(table, catalog, owner, t, body, customerPhone) ==
    IF ~HasBody(body) THEN Threw
    ELSE ParseNormalized(table, catalog, owner, t, body.text,
                         Trim(ToLowerCase(body.text)), customerPhone)

----------------------------------------------------------------------------
(* The inputs *)

\* process.env.RESTAURANT_OWNER_PHONE as deployed
OwnerPhone == "whatsapp:+910000000000"

\* the From of the requests: the owner and a customer
Phones == {OwnerPhone, "whatsapp:+911111111111"}

m_asha == <<"a","s","h","a">>
m_road == <<"M","G"," ","R","o","a","d",","," ","P","u","n","e">>
m_naan == <<"n","a","a","n">>
m_txn == <<"T","X","N","9","8","7">>
m_PayCod == <<"P","a","y"," ","C","O","D">>
m_Paid == <<"P","a","i","d">>

\* the catalog the model starts from
InitialMenu ==
    << [id |-> 1, name |-> <<"C","h","i","c","k","e","n"," ","B","i","r","y","a","n","i">>,
        price |-> 299, available |-> TRUE],
       [id |-> 2, name |-> <<"N","a","a","n">>, price |-> 49, available |-> TRUE],
       [id |-> 3, name |-> <<"F","i","s","h"," ","C","u","r","r","y">>,
        price |-> 250, available |-> FALSE] >>

\* the messages the customer sends to the running system
CustomerMessages ==
    { m_asha, ToLowerCase(PlaceholderName),
      W.hi, <<" ","H","E","L","P"," ">>,
      m_PayCod, m_Paid \o sp \o m_txn,
      W.order \o sp \o <<"2">> \o sp \o m_naan,
      W.complete \o sp \o W.order \o sp \o <<"1">> }

\* the messages the owner sends to the running system
OwnerLiveMessages ==
    { W.hi, m_PayCod,
      W.order \o sp \o <<"2">> \o sp \o m_naan,
      W.complete \o sp \o W.order \o sp \o <<"1">>,
      W.add \o sp \o W.item \o sp \o m_naan \o sp \o <<"2","0">>,
      W.edit \o sp \o W.item \o sp \o <<"9">> \o sp \o W.price \o sp \o <<"3","0">>,
      W.delete \o sp \o W.item \o sp \o <<"9">>,
      W.toggle \o sp \o W.item \o sp \o <<"3">> }

LiveMessages(phone) ==
    IF phone = OwnerPhone THEN OwnerLiveMessages ELSE CustomerMessages

\* the words the location question does not take for an answer
ReservedKeywords ==
    {W.menu, W.help, W.hi, W.hello, W.order, W.status, W.search,
     W.yes, W.no, W.ok, W.thanks, W.thank \o sp \o W.you}

PaymentMessages ==
    { W.pay \o sp \o W.cod, m_PayCod, sp \o W.pay \o sp \o W.upi \o sp,
      W.pay \o sp \o sp \o W.cod, W.pay,
      W.paid \o sp \o m_txn, m_Paid \o sp \o m_txn,
      W.paid \o sp \o <<"1","2","3">>,
      <<"C","o","n","f","i","r","m">> \o sp \o W.payment \o sp \o m_txn,
      W.payment \o sp \o W.status, W.payment \o sp \o W.options }

OwnerMessages ==
    { W.orders, W.stats, W.menu \o sp \o W.manage,
      W.complete \o sp \o W.order \o sp \o <<"1">>,
      W.cancel \o sp \o W.order \o sp \o <<"1">>,
      W.add \o sp \o W.item \o sp \o <<"t","e","a"," ","2","0">>,
      W.edit \o sp \o W.item \o sp \o <<"1">> \o sp \o W.price \o sp \o <<"3","0">>,
      W.delete \o sp \o W.item \o sp \o <<"1">>,
      W.toggle \o sp \o W.item \o sp \o <<"1">> }

OtherMessages ==
    { <<>>, <<"?","?">>, <<"A","l">>, m_asha, ToLowerCase(PlaceholderName), m_road,
      W.my \o sp \o W.name \o sp \o W.is \o sp \o m_asha,
      <<" ","H","E","L","P"," ">>, <<"M","e","n","u">>,
      W.order \o sp \o <<"2">> \o sp \o m_naan,
      W.order \o sp \o <<"2">> \o sp \o <<"c","h","i","c","k","e","n">> \o sp
          \o <<"b","i","r","y","a","n","i",","," ","1">> \o sp \o m_naan,
      W.search \o sp \o m_naan }

p_help_order == <<"h","e","l","p"," ","m","e"," ","o","r","d","e","r"," ","2"," ","n","a","a","n">>
p_order_status == <<"o","r","d","e","r"," ","s","t","a","t","u","s">>
p_how_status == 
    <<"h","o","w"," ","t","o"," ","c","h","e","c","k"," ","o","r","d","e","r"," ","s","t","a","t","u","s">>
p_hi_search == <<"h","i",","," ","s","e","a","r","c","h"," ","n","a","a","n">>
p_search_help == <<"s","e","a","r","c","h"," ","h","e","l","p">>
p_paid_order == <<"p","a","i","d"," ","o","r","d","e","r"," ","2"," ","n","a","a","n">>
p_payment_help == <<"p","a","y","m","e","n","t"," ","h","e","l","p">>

a_samosa_described == 
    <<"a","d","d"," ","i","t","e","m"," ","S","a","m","o","s","a"," ","2","5"," ","C","r","i","s","p","y"," ","f","r","i","e","d"," ","p","a","s","t","r","y">>
a_samosa == <<"a","d","d"," ","i","t","e","m"," ","S","a","m","o","s","a"," ","2","5">>
a_chow_mein == <<"a","d","d"," ","i","t","e","m"," ","c","h","o","w"," ","m","e","i","n"," ","1","2","0">>
a_toggle_status == <<"t","o","g","g","l","e"," ","i","t","e","m"," ","s","t","a","t","u","s"," ","b","a","r">>
a_delete_guide == <<"d","e","l","e","t","e"," ","i","t","e","m"," ","g","u","i","d","e"," ","b","o","o","k">>
a_delete_naan == <<"d","e","l","e","t","e"," ","i","t","e","m"," ","N","a","a","n">>
a_rename == 
    <<"e","d","i","t"," ","i","t","e","m"," ","n","a","a","n"," ","n","a","m","e"," ","b","u","t","t","e","r"," ","n","a","a","n">>

s_chicken == <<"s","e","a","r","c","h"," ","c","h","i","c","k","e","n">>
s_find == <<"f","i","n","d"," ","n","a","a","n">>
s_have == <<"d","o"," ","y","o","u"," ","h","a","v","e"," ","n","a","a","n">>
s_show == <<"s","h","o","w"," ","m","e"," ","n","a","a","n">>

\* messages that match several rules of the resolver
PrecedenceMessages ==
    { p_help_order, p_order_status, p_how_status, p_hi_search, p_search_help,
      p_paid_order, p_payment_help }

\* menu commands of the owner, some with a keyword of another rule in them
MenuCommandMessages ==
    { a_samosa_described, a_samosa, a_chow_mein, a_toggle_status,
      a_delete_guide, a_delete_naan, a_rename }

\* searches by each verb
SearchMessages == { s_chicken, s_find, s_have, s_show }

h_name_hi == <<"m","y"," ","n","a","m","e"," ","i","s"," ","h","i">>
h_at_a == <<"i"," ","a","m"," ","a","t"," ","a">>
h_location_menu == <<"l","o","c","a","t","i","o","n"," ","i","s"," ","m","e","n","u">>

\* answers that open with a filler phrase
FillerMessages == { h_name_hi, h_at_a, h_location_menu }

\* the messages the resolver is tried on
Corpus ==
    ReservedKeywords \cup PaymentMessages \cup OwnerMessages \cup OtherMessages
        \cup PrecedenceMessages \cup MenuCommandMessages \cup SearchMessages \cup FillerMessages
        \cup GreetingWords

----------------------------------------------------------------------------
(* The webhook (server.js) *)

\* the bounds of the model: the clock runs for MaxWindows freshness windows,
\* and a customer places MaxOrders orders
MaxWindows == 1
MaxOrders == 1

\* no request in hand
Idle ==
    [stage |-> "idle", From |-> OwnerPhone, body |-> NoBody, at |-> 0,
     checks |-> JsNull, result |-> JsNull]

OnboardingIntents ==
    {"request_customer_name", "save_customer_name",
     "request_customer_location", "save_customer_location",
     "request_current_location", "save_current_location"}

\* the intents whose handlers write no table, nor the menu, and list no orders
ReadOnlyIntents ==
    {"show_menu", "help", "order_status", "search_menu", "unknown",
     "owner_stats", "owner_menu_manage",
     "payment_status", "payment_options", "payment_help",
     "request_customer_location", "request_current_location"}

Init ==
    /\ customers = [p \in Phones |-> NoRow]
    /\ now = 0
    /\ req = Idle
    /\ menu = InitialMenu
    /\ ownerPhone = OwnerPhone
    /\ orders = << >> /\ shown = << >> /\ racing = << >>

Receive_CreatesRow(phone, body) ==
    LET result == parseMessage(customers, menu, ownerPhone, now, body, phone)
    IN  /\ req.stage = "idle"
        /\ ~HasThrown(result) /\ result.intent = "place_order"
               => (customers[phone].exists
                      => customers[phone].totalOrders < MaxOrders)
        /\ req' = [stage |-> IF HasThrown(result) THEN "failed" ELSE "parsed",
                   From |-> phone, body |-> body, at |-> now,
                   checks |-> GateChecks(customers, ownerPhone, now,
                                         body, phone),
                   result |-> result]
        /\ customers' =
               IF customers[phone].exists THEN customers
               ELSE [customers EXCEPT ![phone] = NewRow(PlaceholderName)]
        /\ UNCHANGED <<now, menu, ownerPhone, orders, shown, racing>>

\* the request in hand once parseMessage has returned result, or thrown
Received(phone, body, checks, result) ==
    /\ req.stage = "idle"
    /\ ~HasThrown(result) /\ result.intent = "place_order"
           => (customers[phone].exists
                  => customers[phone].totalOrders < MaxOrders)
    /\ req' = [stage |-> IF HasThrown(result) THEN "failed" ELSE "parsed",
               From |-> phone, body |-> body, at |-> now,
               checks |-> checks, result |-> result]
    /\ UNCHANGED <<customers, now, menu, ownerPhone, orders, shown, racing>>

\* POST /webhook up to the switch: the message is resolved at the time of the
\* clock; a throw is caught by the catch of the route
Receive(phone, body) ==
    Received(phone, body,
             GateChecks(customers, ownerPhone, now, body, phone),
             parseMessage(customers, menu, ownerPhone, now, body, phone))

\* the handler returned the text of the reply
Replied == req' = [req EXCEPT !.stage = "replied"]

Dispatching(intent) ==
    req.stage = "parsed" /\ req.result.intent = intent

HandleRequestCustomerName_CreatesRow ==
    /\ Dispatching("request_customer_name")
    /\ customers' =
           IF customers[req.From].exists THEN customers
           ELSE [customers EXCEPT ![req.From] = NewRow(PlaceholderName)]
    /\ Replied
    /\ UNCHANGED <<now, menu, ownerPhone, orders, shown, racing>>

\* handleRequestCustomerName
HandleRequestCustomerName ==
    /\ Dispatching("request_customer_name")
    /\ Replied
    /\ UNCHANGED <<customers, now, menu, ownerPhone, orders, shown, racing>>

\* a save of the name that writes the whole row anew
updateCustomerName_Replace(table, phone, name) ==
    [table EXCEPT ![phone] = NewRow(Trim(name))]

\* CustomerService.updateCustomerName
updateCustomerName(table, phone, name) ==
    IF ~table[phone].exists
    THEN [table EXCEPT ![phone] = NewRow(Trim(name))]
    ELSE [table EXCEPT ![phone].name = Trim(name)]

\* handleSaveCustomerName
HandleSaveCustomerName ==
    /\ Dispatching("save_customer_name")
    /\ customers' = updateCustomerName(customers, req.result.data.phone,
                                       req.result.data.name)
    /\ Replied
    /\ UNCHANGED <<now, menu, ownerPhone, orders, shown, racing>>

\* an update of the location that opens the session as well
updateCustomerLocation_OpensSession(table, phone, location) ==
    IF ~table[phone].exists THEN table
    ELSE [table EXCEPT ![phone].location = Trim(location),
                       ![phone].currentLocation = Trim(location),
                       ![phone].lastLocationUpdate = 0,
                       ![phone].sessionActive = TRUE]

\* CustomerService.updateCustomerLocation; 'Customer not found' is thrown, and
\* caught by the handler, when the row is missing
updateCustomerLocation(table, phone, location) ==
    IF ~table[phone].exists THEN table
    ELSE [table EXCEPT ![phone].location = Trim(location)]

\* handleSaveCustomerLocation
HandleSaveCustomerLocation ==
    /\ Dispatching("save_customer_location")
    /\ customers' = updateCustomerLocation(customers, req.result.data.phone,
                                           req.result.data.location)
    /\ Replied
    /\ UNCHANGED <<now, menu, ownerPhone, orders, shown, racing>>

\* CustomerService.updateCurrentLocation at wall-clock time t
updateCurrentLocation(table, phone, currentLocation, t) ==
    IF ~table[phone].exists THEN table
    ELSE [table EXCEPT ![phone].currentLocation = Trim(currentLocation),
                       ![phone].lastLocationUpdate = t,
                       ![phone].sessionActive = TRUE]

\* handleSaveCurrentLocation
HandleSaveCurrentLocation ==
    /\ Dispatching("save_current_location")
    /\ customers' = updateCurrentLocation(customers, req.result.data.phone,
                                          req.result.data.currentLocation, now)
    /\ Replied
    /\ UNCHANGED <<now, menu, ownerPhone, orders, shown, racing>>

\* an update of the customer's data that writes the name 'Customer'
updateCustomerData_Placeholder(table, phone) ==
    IF ~table[phone].exists
    THEN [table EXCEPT ![phone] = [NewRow(PlaceholderName) EXCEPT !.totalOrders = 1]]
    ELSE [table EXCEPT ![phone].totalOrders = @ + 1,
                       ![phone].name = PlaceholderName]

\* OrderService.updateCustomerData, called by createOrder with the name of the
\* row, or 'Customer' when there is no row or no name
updateCustomerData(table, phone) ==
    IF ~table[phone].exists
    THEN [table EXCEPT ![phone] = [NewRow(PlaceholderName) EXCEPT !.totalOrders = 1]]
    ELSE [table EXCEPT ![phone].totalOrders = @ + 1]

\* lines 354-385 of handleOrderRequest: every line of the order has its item
\* and a quantity above 0
OrderAccepted(orderData) ==
    IF "isMultipleItems" \in DOMAIN orderData
    THEN \A i \in 1..Len(orderData.items) :
             ~IsNull(orderData.items[i].menuItem) /\ orderData.items[i].quantity > 0
    ELSE ~IsNull(orderData.menuItem) /\ orderData.quantity > 0

\* the decimal numeral of d
DigitChar(d) == <<"0","1","2","3","4","5","6","7","8","9">>[d + 1]

\* String(n) for an integer n >= 0
RECURSIVE NumberText(_)
NumberText(n) ==
    IF n < 10 THEN <<DigitChar(n)>>
    ELSE NumberText(n \div 10) \o <<DigitChar(n % 10)>>

\* Math.random().toString(36).substr(2, 4).toUpperCase(): the codes it draws
ShortCodes == { <<"A","7","H","4">>, <<"K","2","X","9">> }

\* `ORD-${Date.now()}-${code}`
OrderIdOf(t, code) ==
    <<"O","R","D","-">> \o NumberText(t) \o <<"-">> \o code

\* createdAt is a DATETIME column: the time of the insertion to the nearest
\* second
CreatedAt(t) == ((t + 500) \div 1000) * 1000

\* the comparison of the orderId column, which the collation of MySQL makes
\* without regard to case
SameText(a, b) == ToLowerCase(a) = ToLowerCase(b)

\* lines 354-385 of handleOrderRequest: orderItems
OrderItems(orderData) ==
    LET line(item) == [menuId |-> item.menuItem.id, name |-> item.menuItem.name,
                       quantity |-> item.quantity, price |-> item.menuItem.price,
                       total |-> item.total]
    IN  IF "isMultipleItems" \in DOMAIN orderData
        THEN [i \in 1..Len(orderData.items) |-> line(orderData.items[i])]
        ELSE << line(orderData) >>

\* Order.create of createOrder, with the column defaults of the model
NewOrder(orderId, customerPhone, customerName, items, t) ==
    [orderId |-> orderId, customerPhone |-> customerPhone,
     customerName |-> customerName, items |-> items,
     totalAmount |-> SumTotals(items),
     status |-> "pending", paymentStatus |-> "pending",
     paymentMethod |-> W.cod, paymentId |-> << >>,
     createdAt |-> CreatedAt(t)]

\* order: [['createdAt', 'DESC']]: the ways the rows at the positions S come
\* back, latest first; rows of one second come back in either order
Latest(table, S) ==
    {f \in [1..Cardinality(S) -> S] :
        /\ \A i, j \in 1..Cardinality(S) : i # j => f[i] # f[j]
        /\ \A i, j \in 1..Cardinality(S) :
               i < j => table[f[i]].createdAt >= table[f[j]].createdAt}

\* the first limit entries of a listing
Limit(listing, limit) ==
    SubSeq(listing, 1, IF Len(listing) < limit THEN Len(listing) ELSE limit)

\* OrderService.getOrderById: the positions of the rows found (none or one)
getOrderById(table, orderId) ==
    {i \in 1..Len(table) : SameText(table[i].orderId, orderId)}

\* LIKE '%-<shortCode>' of getOrderByShortCode
EndsWithCode(orderId, shortCode) ==
    /\ Len(orderId) >= Len(shortCode) + 1
    /\ SameText(From(orderId, Len(orderId) - Len(shortCode)),
                <<"-">> \o shortCode)

\* OrderService.getOrderByShortCode: the positions it may return, none when it
\* returns null
getOrderByShortCode(table, shortCode) ==
    IF StartsWith(shortCode, <<"O","R","D","-">>)
    THEN getOrderById(table, shortCode)
    ELSE LET found == {i \in 1..Len(table) :
                          EndsWithCode(table[i].orderId, shortCode)}
         IN  IF found = {} THEN {}
             ELSE {f[1] : f \in Latest(table, found)}

\* the where clause of a listing that looks at the payment column alone
OwnerFilter_PaymentOnly(table, filter, t) ==
    {i \in 1..Len(table) :
        CASE filter = "pending" -> table[i].status = "pending"
          [] filter = "completed" -> table[i].status = "completed"
          [] filter = "cancelled" -> table[i].status = "cancelled"
          [] filter = "paid" -> table[i].paymentStatus = "paid"
          [] filter = "unpaid" -> table[i].paymentStatus = "pending"
          [] filter = "today" -> table[i].createdAt \div DayMs = t \div DayMs
          [] OTHER -> TRUE}

\* the rows a filter of getOrdersForOwner keeps, at the time t
OwnerFilter(table, filter, t) ==
    {i \in 1..Len(table) :
        CASE filter = "pending" -> table[i].status = "pending"
          [] filter = "completed" -> table[i].status = "completed"
          [] filter = "cancelled" -> table[i].status = "cancelled"
          [] filter = "paid" -> table[i].paymentStatus = "paid"
          [] filter = "unpaid" -> /\ table[i].paymentStatus = "pending"
                                  /\ table[i].status # "cancelled"
          [] filter = "today" -> table[i].createdAt \div DayMs = t \div DayMs
          [] OTHER -> TRUE}

\* OrderService.getOrdersForOwner: the listings it may return
getOrdersForOwner(table, filter, limit, t) ==
    {Limit(f, limit) : f \in Latest(table, OwnerFilter(table, filter, t))}

\* the rows a filter of getOrdersCountForOwner counts, at the time t
OwnerCountFilter(table, filter, t) ==
    {i \in 1..Len(table) :
        CASE filter = "pending" -> table[i].status = "pending"
          [] filter = "completed" -> table[i].status = "completed"
          [] filter = "cancelled" -> table[i].status = "cancelled"
          [] filter = "paid" -> table[i].paymentStatus = "paid"
          [] filter = "unpaid" -> /\ table[i].paymentStatus = "pending"
                                  /\ table[i].status # "cancelled"
          [] filter = "today" -> table[i].createdAt \div DayMs = t \div DayMs
          [] OTHER -> TRUE}

\* OrderService.getOrdersCountForOwner
getOrdersCountForOwner(table, filter, t) ==
    Cardinality(OwnerCountFilter(table, filter, t))

\* a listing of the latest orders of all customers
getCustomerOrders_Any(table, customerPhone, limit) ==
    {Limit(f, limit) : f \in Latest(table, 1..Len(table))}

\* OrderService.getCustomerOrders: the listings it may return
getCustomerOrders(table, customerPhone, limit) ==
    {Limit(f, limit) :
        f \in Latest(table, {i \in 1..Len(table) :
                                table[i].customerPhone = customerPhone})}

\* OrderService.updateOrderStatus on the row at position i
updateOrderStatus(table, i, status) ==
    [table EXCEPT ![i].status = status]

\* PaymentService.updatePaymentStatus on the row at position i; a null method
\* or payment id leaves the column as it is
updatePaymentStatus(table, i, paymentStatus, paymentMethod, paymentId) ==
    [table EXCEPT ![i].paymentStatus = paymentStatus,
                  ![i].paymentMethod = IF paymentMethod = << >> THEN @
                                       ELSE paymentMethod,
                  ![i].paymentId = IF paymentId = << >> THEN @ ELSE paymentId]

\* OrderService.createOrder: the row of the order is inserted after the
\* customer's row is updated; Order.create throws on an orderId that is taken
createOrder(table, customerPhone, customerName, items, t, code) ==
    IF getOrderById(table, OrderIdOf(t, code)) # {} THEN table
    ELSE Append(table, NewOrder(OrderIdOf(t, code), customerPhone,
                                customerName, items, t))

\* the name createOrder reads from the customer's row
ActualCustomerName(c) ==
    IF c.exists /\ c.name # << >> THEN c.name ELSE PlaceholderName

\* handleOrderRequest
HandleOrderRequest ==
    /\ Dispatching("place_order")
    /\ IF OrderAccepted(req.result.data)
       THEN /\ customers' = updateCustomerData(customers, req.From)
            /\ \E code \in ShortCodes :
                   orders' = createOrder(orders, req.From,
                                         ActualCustomerName(customers[req.From]),
                                         OrderItems(req.result.data), now, code)
       ELSE UNCHANGED <<customers, orders>>
    /\ Replied
    /\ UNCHANGED <<now, menu, ownerPhone, shown, racing>>

\* the order ids of a listing
IdsOf(table, listing) == [k \in 1..Len(listing) |-> table[listing[k]].orderId]

\* handleOwnerOrdersRequest: the reply numbers the first 8 orders of the
\* listing
HandleOwnerOrdersRequest ==
    /\ Dispatching("owner_orders")
    /\ \E listing \in getOrdersForOwner(orders, req.result.data.filter,
                                        OwnerListLimit, now) :
           shown' = IdsOf(orders, Limit(listing, ShownLimit))
    /\ Replied
    /\ UNCHANGED <<customers, now, menu, ownerPhone, orders, racing>>

\* strategy 3 of handleOwnerCompleteOrder: a number is a position in the
\* pending orders
ByNumber(table, inputId, t) ==
    IF inputId # << >> /\ AllIn(inputId, Digits)
    THEN {listing[ParseInt(inputId)] :
             listing \in {l \in getOrdersForOwner(table, "pending",
                                                  CompleteListLimit, t) :
                             /\ ParseInt(inputId) >= 1
                             /\ ParseInt(inputId) <= Len(l)}}
    ELSE {}

\* strategy 4 of handleOwnerCompleteOrder: the first pending order whose id
\* includes the input
ByPartialId(table, inputId, t) ==
    LET hit(l) == {k \in 1..Len(l) :
                      Includes(ToLowerCase(table[l[k]].orderId),
                               ToLowerCase(inputId))}
    IN  {l[SetMin(hit(l))] :
            l \in {x \in getOrdersForOwner(table, "pending",
                                           CompleteListLimit, t) :
                      hit(x) # {}}}

\* lines 639-665 of handleOwnerCompleteOrder: the positions of the order it may
\* settle on, none when it finds no order
CompleteTargets(table, inputId, t) ==
    IF getOrderById(table, inputId) # {} THEN getOrderById(table, inputId)
    ELSE IF getOrderByShortCode(table, inputId) # {}
    THEN getOrderByShortCode(table, inputId)
    ELSE IF ByNumber(table, inputId, t) # {} THEN ByNumber(table, inputId, t)
    ELSE ByPartialId(table, inputId, t)

\* handleOwnerCompleteOrder
HandleOwnerCompleteOrder ==
    /\ Dispatching("owner_complete_order")
    /\ IF CompleteTargets(orders, req.result.data.orderId, now) = {}
       THEN UNCHANGED orders
       ELSE \E i \in CompleteTargets(orders, req.result.data.orderId, now) :
                orders' = updateOrderStatus(orders, i, "completed")
    /\ Replied
    /\ UNCHANGED <<customers, now, menu, ownerPhone, shown, racing>>

\* lines 710-715 of handleOwnerCancelOrder
CancelTargets(table, inputId) ==
    IF getOrderById(table, inputId) # {} THEN getOrderById(table, inputId)
    ELSE getOrderByShortCode(table, inputId)

\* handleOwnerCancelOrder
HandleOwnerCancelOrder ==
    /\ Dispatching("owner_cancel_order")
    /\ IF CancelTargets(orders, req.result.data.orderId) = {}
       THEN UNCHANGED orders
       ELSE \E i \in CancelTargets(orders, req.result.data.orderId) :
                orders' = updateOrderStatus(orders, i, "cancelled")
    /\ Replied
    /\ UNCHANGED <<customers, now, menu, ownerPhone, shown, racing>>

\* lines 1024-1041 of handlePaymentMethodSelection on the customer's latest
\* order, when it is pending
SelectMethod(table, i, method) ==
    IF method = W.cod
    THEN updatePaymentStatus(updatePaymentStatus(table, i, "pending", method,
                                                 << >>),
                             i, "cod", W.cod, << >>)
    ELSE updatePaymentStatus(table, i, "pending", method, << >>)

\* handlePaymentMethodSelection
HandlePaymentMethodSelection ==
    /\ Dispatching("select_payment_method")
    /\ \E recentOrders \in getCustomerOrders(orders,
                                             req.result.data.customerPhone, 1) :
           IF recentOrders # << >> /\ orders[recentOrders[1]].status = "pending"
           THEN orders' = SelectMethod(orders, recentOrders[1],
                              req.result.data.methodMap[
                                  IF req.result.data.method = W.cod
                                  THEN "cod" ELSE "upi"])
           ELSE UNCHANGED orders
    /\ Replied
    /\ UNCHANGED <<customers, now, menu, ownerPhone, shown, racing>>

\* lines 1063-1066 of handlePaymentConfirmation: the places in the listing of
\* the orders that are pending and whose payment is pending
PendingPayment(table, recentOrders) ==
    {k \in 1..Len(recentOrders) :
        /\ table[recentOrders[k]].status = "pending"
        /\ table[recentOrders[k]].paymentStatus = "pending"}

\* PaymentService.confirmPayment on the row at position i
confirmPayment(table, i, transactionId) ==
    updatePaymentStatus(table, i, "paid", table[i].paymentMethod, transactionId)

\* handlePaymentConfirmation
HandlePaymentConfirmation ==
    /\ Dispatching("confirm_payment")
    /\ \E recentOrders \in getCustomerOrders(orders,
                               req.result.data.customerPhone,
                               RecentOrdersLimit) :
           IF PendingPayment(orders, recentOrders) # {}
           THEN orders' = confirmPayment(orders,
                              recentOrders[SetMin(PendingPayment(orders,
                                                                 recentOrders))],
                              req.result.data.transactionId)
           ELSE UNCHANGED orders
    /\ Replied
    /\ UNCHANGED <<customers, now, menu, ownerPhone, shown, racing>>

\* Number(identifier) is a number; of the numerals only digits with an
\* optional fraction are modelled
NumericText(s) == s # <<>> /\ NumberRun(s, 1) = Len(s)

\* the findIndex of the menu management: the place in the catalog of the item
\* with the id, for a numeric identifier, or else with the name; 0 for none
FindItemIndex(catalog, identifier) ==
    LET hits ==
            IF NumericText(identifier)
            THEN {i \in 1..Len(catalog) :
                     catalog[i].id =
                         ParseInt(SubSeq(identifier, 1, DigitRun(identifier, 1)))}
            ELSE {i \in 1..Len(catalog) :
                     ToLowerCase(catalog[i].name) = ToLowerCase(identifier)}
    IN  IF hits = {} THEN 0 ELSE SetMin(hits)

\* the number parseFloat gave: an integer, or the decimal kept as its digits
PriceValue(p) == IF p.frac = <<>> THEN p.whole ELSE p

\* MenuManagementService.addMenuItem, as far as id, name, price and
\* availability go
addMenuItem(catalog, name, price) ==
    IF \E i \in 1..Len(catalog) : ToLowerCase(catalog[i].name) = ToLowerCase(name)
    THEN catalog
    ELSE Append(catalog,
                [id |-> SetMax({0} \cup {catalog[i].id : i \in 1..Len(catalog)}) + 1,
                 name |-> Trim(name), price |-> PriceValue(price),
                 available |-> TRUE])

\* handleOwnerAddItem
HandleOwnerAddItem ==
    /\ Dispatching("owner_add_item")
    /\ menu' = IF \/ req.result.data.name = <<>>
                  \/ req.result.data.price = [whole |-> 0, frac |-> <<>>]
               THEN menu
               ELSE addMenuItem(menu, req.result.data.name, req.result.data.price)
    /\ Replied
    /\ UNCHANGED <<customers, now, ownerPhone, orders, shown, racing>>

\* the catalog with the updates applied to the item at place i
ApplyUpdates(catalog, i, updates) ==
    IF "name" \in DOMAIN updates
    THEN IF updates.name = <<>> THEN catalog
         ELSE IF \E k \in 1..Len(catalog) :
                k # i /\ ToLowerCase(catalog[k].name) = ToLowerCase(updates.name)
         THEN catalog
         ELSE [catalog EXCEPT ![i].name = Trim(updates.name)]
    ELSE [catalog EXCEPT ![i].price = PriceValue(updates.price)]

\* MenuManagementService.editMenuItem for the updates parseOwnerCommand
\* gives: a name or a price
editMenuItem(catalog, identifier, updates) ==
    IF FindItemIndex(catalog, identifier) = 0 THEN catalog
    ELSE ApplyUpdates(catalog, FindItemIndex(catalog, identifier), updates)

\* handleOwnerEditItem
HandleOwnerEditItem ==
    /\ Dispatching("owner_edit_item")
    /\ menu' = IF req.result.data.identifier = <<>> THEN menu
               ELSE editMenuItem(menu, req.result.data.identifier,
                                 req.result.data.updates)
    /\ Replied
    /\ UNCHANGED <<customers, now, ownerPhone, orders, shown, racing>>

\* MenuManagementService.deleteMenuItem
deleteMenuItem(catalog, identifier) ==
    IF FindItemIndex(catalog, identifier) = 0 THEN catalog
    ELSE SubSeq(catalog, 1, FindItemIndex(catalog, identifier) - 1)
             \o From(catalog, FindItemIndex(catalog, identifier) + 1)

\* handleOwnerDeleteItem
HandleOwnerDeleteItem ==
    /\ Dispatching("owner_delete_item")
    /\ menu' = IF req.result.data.identifier = <<>> THEN menu
               ELSE deleteMenuItem(menu, req.result.data.identifier)
    /\ Replied
    /\ UNCHANGED <<customers, now, ownerPhone, orders, shown, racing>>

\* MenuManagementService.toggleItemAvailability
toggleItemAvailability(catalog, identifier) ==
    IF FindItemIndex(catalog, identifier) = 0 THEN catalog
    ELSE [catalog EXCEPT ![FindItemIndex(catalog, identifier)].available = ~@]

\* handleOwnerToggleItem
HandleOwnerToggleItem ==
    /\ Dispatching("owner_toggle_item")
    /\ menu' = IF req.result.data.identifier = <<>> THEN menu
               ELSE toggleItemAvailability(menu, req.result.data.identifier)
    /\ Replied
    /\ UNCHANGED <<customers, now, ownerPhone, orders, shown, racing>>

\* the handlers that write no table, nor the menu, and list no orders
HandleWithoutWrite ==
    /\ req.stage = "parsed"
    /\ req.result.intent \in ReadOnlyIntents
    /\ Replied
    /\ UNCHANGED <<customers, now, menu, ownerPhone, orders, shown, racing>>

\* lines 184-191: the reply is sent with status 200
SendResponse ==
    /\ req.stage = "replied"
    /\ req' = Idle
    /\ UNCHANGED <<customers, now, menu, ownerPhone, orders, shown, racing>>

\* lines 192-195: the catch of the route answers with status 500
SendError ==
    /\ req.stage = "failed"
    /\ req' = Idle
    /\ UNCHANGED <<customers, now, menu, ownerPhone, orders, shown, racing>>

\* the wall clock moves on: by a millisecond past a multiple of the freshness
\* window, or by a whole window
Tick ==
    /\ \/ (now % SessionWindowMs) = 0 /\ now' = now + 1
       \/ now + SessionWindowMs <= MaxWindows * SessionWindowMs + 1
              /\ now' = now + SessionWindowMs
    /\ UNCHANGED <<customers, req, menu, ownerPhone, orders, shown, racing>>

\* the handlers of the dialogue, of the order message and of the menu commands
HandleSession ==
    \/ HandleRequestCustomerName
    \/ HandleSaveCustomerName
    \/ HandleSaveCustomerLocation
    \/ HandleSaveCurrentLocation
    \/ HandleOrderRequest
    \/ HandleOwnerAddItem
    \/ HandleOwnerEditItem
    \/ HandleOwnerDeleteItem
    \/ HandleOwnerToggleItem
    \/ HandleWithoutWrite

\* the handlers of the owner's order commands and of the payment commands
HandleLedger ==
    \/ HandleOwnerOrdersRequest
    \/ HandleOwnerCompleteOrder
    \/ HandleOwnerCancelOrder
    \/ HandlePaymentMethodSelection
    \/ HandlePaymentConfirmation

\* what the route does with a request in hand
Handle == HandleSession \/ HandleLedger

\* the messages of the dialogue, the order message and the menu commands
SessionMessages(phone) ==
    IF phone = OwnerPhone
    THEN { W.hi,
           W.add \o sp \o W.item \o sp \o m_naan \o sp \o <<"2","0">>,
           W.edit \o sp \o W.item \o sp \o <<"9">> \o sp \o W.price \o sp \o <<"3","0">>,
           W.delete \o sp \o W.item \o sp \o <<"9">>,
           W.toggle \o sp \o W.item \o sp \o <<"3">> }
    ELSE { m_asha, ToLowerCase(PlaceholderName),
           W.hi, <<" ","H","E","L","P"," ">>,
           W.order \o sp \o <<"2">> \o sp \o m_naan }

Next ==
    \/ \E phone \in Phones : \E m \in SessionMessages(phone) :
           Receive(phone, TextBody(m))
    \/ \E phone \in Phones : Receive(phone, NoBody)
    \/ HandleSession
    \/ SendResponse
    \/ SendError
    \/ Tick

\* the running system: requests one after the other, from an empty table
Spec == Init /\ [][Next]_vars

----------------------------------------------------------------------------
(* One request against any table *)

\* the rows of the customers table, which is a database other writers share:
\* every row the columns admit over these values
Snapshots ==
    {NoRow} \cup
    [exists : {TRUE},
     name : {<<>>, PlaceholderName, TitleCase(m_asha)},
     location : {<<>>, m_road},
     currentLocation : {<<>>, m_road},
     lastLocationUpdate : {NoDate, 0},
     sessionActive : BOOLEAN,
     totalOrders : {0}]

\* the times of the clock of the running system
ClockSamples ==
    {k * SessionWindowMs + d : k \in 0..MaxWindows, d \in {0, 1}}

InitResolve ==
    /\ \E r \in Snapshots : customers = [p \in Phones |-> r]
    /\ now \in ClockSamples
    /\ req = Idle
    /\ menu = InitialMenu
    /\ ownerPhone = OwnerPhone
    /\ orders = << >> /\ shown = << >> /\ racing = << >>

NextResolve ==
    \/ \E phone \in Phones, m \in Corpus : Receive(phone, TextBody(m))
    \/ \E phone \in Phones : Receive(phone, NoBody)
    \/ Handle

\* parseMessage and the handler of its intent, applied to one request
SpecResolve == InitResolve /\ [][NextResolve]_vars

----------------------------------------------------------------------------
(* Order messages against several catalogs *)

n_garlic_naan == <<"G","a","r","l","i","c"," ","N","a","a","n">>
n_curry_and_naan == <<"C","u","r","r","y"," ","a","n","d"," ","N","a","a","n">>

\* catalogs in which the term "naan" has several matches: the longer name
\* first, the longer name first and unavailable, and a name with "and" in it
GarlicFirstMenu ==
    << [id |-> 4, name |-> n_garlic_naan, price |-> 69, available |-> TRUE],
       InitialMenu[2], InitialMenu[1] >>

GarlicOffMenu ==
    << [id |-> 4, name |-> n_garlic_naan, price |-> 69, available |-> FALSE],
       InitialMenu[2], InitialMenu[1] >>

ComboMenu ==
    << [id |-> 5, name |-> n_curry_and_naan, price |-> 199, available |-> TRUE],
       InitialMenu[2] >>

Catalogs == {InitialMenu, GarlicFirstMenu, GarlicOffMenu, ComboMenu}

o_two_lines == 
    <<"O","r","d","e","r"," ","2"," ","C","h","i","c","k","e","n"," ","B","i","r","y","a","n","i",","," ","1"," ","N","a","a","n">>
o_three_lines == 
    <<"i"," ","w","a","n","t"," ","1"," ","n","a","a","n"," ","a","n","d"," ","2"," ","c","h","i","c","k","e","n"," ","b","i","r","y","a","n","i"," ","a","n","d"," ","3"," ","n","a","a","n">>
o_one_of_two == <<"o","r","d","e","r"," ","2"," ","n","a","a","n",","," ","1"," ","p","i","z","z","a">>
o_none == <<"o","r","d","e","r"," ","2"," ","p","i","z","z","a">>
o_single == <<"o","r","d","e","r"," ","2"," ","n","a","a","n">>
o_zero == <<"o","r","d","e","r"," ","0"," ","n","a","a","n">>
o_negative == <<"o","r","d","e","r"," ","-","2"," ","n","a","a","n">>
o_fraction == <<"o","r","d","e","r"," ","1",".","5"," ","n","a","a","n">>
o_tie == <<"o","r","d","e","r"," ","1"," ","a","n">>
o_by_id == <<"o","r","d","e","r"," ","1"," ","i","t","e","m"," ","3">>
o_by_hash == <<"o","r","d","e","r"," ","1"," ","#","2">>
o_unavailable == <<"o","r","d","e","r"," ","1"," ","f","i","s","h"," ","c","u","r","r","y">>
o_zero_line == 
    <<"o","r","d","e","r"," ","2"," ","n","a","a","n",","," ","0"," ","c","h","i","c","k","e","n"," ","b","i","r","y","a","n","i">>
o_for_clause == 
    <<"g","e","t"," ","m","e"," ","2"," ","n","a","a","n"," ","f","o","r"," ","d","e","l","i","v","e","r","y">>
o_plus == <<"o","r","d","e","r"," ","2"," ","n","a","a","n"," ","+"," ","1"," ","i","t","e","m"," ","1">>
o_and_naan == <<"o","r","d","e","r"," ","2"," ","a","n","d"," ","n","a","a","n">>

\* the order messages the resolver is tried on
OrderMessages ==
    { o_two_lines, o_three_lines, o_one_of_two, o_none,
      o_single, o_zero, o_negative, o_fraction,
      o_tie, o_by_id, o_by_hash, o_unavailable,
      o_zero_line, o_for_clause, o_plus, o_and_naan }

\* a customer past the gate at time 0
ActiveRow ==
    [NewRow(TitleCase(m_asha)) EXCEPT !.location = m_road,
                                      !.currentLocation = m_road,
                                      !.lastLocationUpdate = 0,
                                      !.sessionActive = TRUE]

InitOrder ==
    /\ \E r \in {NoRow, ActiveRow} : customers = [p \in Phones |-> r]
    /\ now = 0
    /\ req = Idle
    /\ menu \in Catalogs
    /\ ownerPhone = OwnerPhone
    /\ orders = << >> /\ shown = << >> /\ racing = << >>

NextOrder ==
    \/ \E phone \in Phones, m \in OrderMessages : Receive(phone, TextBody(m))
    \/ HandleRequestCustomerName
    \/ HandleOrderRequest
    \/ HandleWithoutWrite

\* parseMessage applied to one order message, and the handler of its intent
SpecOrder == InitOrder /\ [][NextOrder]_vars

----------------------------------------------------------------------------
(* One message resolved twice *)

\* the request in hand once parseMessage has returned a second time
ResolvedAgain(result) ==
    req' = [stage |-> "again", From |-> req.From, body |-> req.body,
            at |-> req.at, checks |-> req.checks, result |-> req.result,
            again |-> [at |-> now, result |-> result]]

\* parseMessage called once more with the message and the phone of the request
\* in hand, at the time of the clock then
ResolveAgain ==
    /\ req.stage = "parsed"
    /\ ResolvedAgain(parseMessage(customers, menu, ownerPhone, now,
                                  req.body, req.From))
    /\ UNCHANGED <<customers, now, menu, ownerPhone, orders, shown, racing>>

\* the messages of both senders of the running system
TwiceMessages == CustomerMessages \cup OwnerLiveMessages

NextTwice ==
    \/ \E phone \in Phones, m \in TwiceMessages : Receive(phone, TextBody(m))
    \/ ResolveAgain
    \/ Tick

\* parseMessage applied twice to the same message, phone, table and catalog,
\* with the clock free to move in between
SpecTwice == InitResolve /\ [][NextTwice]_vars

----------------------------------------------------------------------------
(* A collaborator out of reach *)

\* what getCustomer hands back for every phone while Customer.findOne rejects:
\* the catch returns null
UnreachableStore == [p \in Phones |-> NoRow]

\* what findItemById and searchItems see while loadMenu throws: their catch
\* returns null and the empty list
UnreachableCatalog == << >>

\* the request in hand once parseMessage has returned, with the collaborator
\* that was out of reach while it ran
ReceivedWhileDown(down, phone, body, checks, result) ==
    /\ req.stage = "idle"
    /\ req' = [stage |-> IF HasThrown(result) THEN "failed" ELSE "parsed",
               From |-> phone, body |-> body, at |-> now,
               checks |-> checks, result |-> result, down |-> down]
    /\ UNCHANGED <<customers, now, menu, ownerPhone, orders, shown, racing>>

\* POST /webhook up to the switch while the customers table cannot be read
ReceiveStoreDown(phone, body) ==
    ReceivedWhileDown("store", phone, body,
        GateChecks(UnreachableStore, ownerPhone, now, body, phone),
        parseMessage(UnreachableStore, menu, ownerPhone, now, body, phone))

\* POST /webhook up to the switch while menu.json cannot be read
ReceiveCatalogDown(phone, body) ==
    ReceivedWhileDown("catalog", phone, body,
        GateChecks(customers, ownerPhone, now, body, phone),
        parseMessage(customers, UnreachableCatalog, ownerPhone, now,
                     body, phone))

NextDown ==
    \/ \E phone \in Phones : \E m \in LiveMessages(phone) :
           ReceiveStoreDown(phone, TextBody(m))
    \/ \E phone \in Phones : \E m \in LiveMessages(phone) :
           ReceiveCatalogDown(phone, TextBody(m))

\* one request resolved while a collaborator is out of reach
SpecDown == InitResolve /\ [][NextDown]_vars

----------------------------------------------------------------------------
(* The orders ledger *)

\* the From of the requests of the ledger: the owner and two customers
LedgerPhones == Phones \cup {"whatsapp:+912222222222"}

m_done == <<"d","o","n","e">>
m_code == <<"k","2","x","9">>

\* the messages of a customer who orders and pays
CustomerLedgerMessages ==
    { W.order \o sp \o <<"2">> \o sp \o m_naan,
      m_PayCod,
      m_Paid \o sp \o m_txn }

\* the owner's order commands
OwnerLedgerMessages ==
    { W.orders,
      m_done \o sp \o <<"1">>,
      W.complete \o sp \o W.order \o sp \o m_code,
      W.cancel \o sp \o W.order \o sp \o m_code,
      W.paid \o sp \o m_code }

\* the second customer only orders
LedgerMessages(phone) ==
    IF phone = OwnerPhone THEN OwnerLedgerMessages
    ELSE IF phone \in Phones THEN CustomerLedgerMessages
    ELSE { W.order \o sp \o <<"2">> \o sp \o m_naan }

\* both customers are past the gate and the orders table is empty
InitLedger ==
    /\ customers = [p \in LedgerPhones |->
                        IF p = OwnerPhone THEN NoRow ELSE ActiveRow]
    /\ now = 0
    /\ req = Idle
    /\ menu = InitialMenu
    /\ ownerPhone = OwnerPhone
    /\ orders = << >> /\ shown = << >> /\ racing = << >>

NextLedger ==
    \/ \E phone \in LedgerPhones : \E m \in LedgerMessages(phone) :
           Receive(phone, TextBody(m))
    \/ HandleOrderRequest
    \/ HandleLedger
    \/ HandleWithoutWrite
    \/ SendResponse
    \/ Tick

\* the running system with customers who order and pay and an owner who
\* lists, completes and cancels
SpecLedger == InitLedger /\ [][NextLedger]_vars

----------------------------------------------------------------------------
(* Two requests in flight *)

\* the customers whose requests overlap
RacePhones == LedgerPhones \ {OwnerPhone}

m_ravi == <<"r","a","v","i">>

\* the messages of the requests in flight: a greeting, two names, a location
RaceMessages == { W.hi, m_asha, m_ravi, m_road }

\* the requests in flight
Slots == {1, 2}

\* the rows a customer may have as the requests arrive: none, a name, a name
\* and a location, a fresh session
StartRows ==
    { NoRow, NewRow(TitleCase(m_asha)),
      [NewRow(TitleCase(m_asha)) EXCEPT !.location = m_road],
      ActiveRow }

\* the rows of the table with the phone
RowsOf(rows, phone) == {i \in 1..Len(rows) : rows[i].phone = phone}

\* the place of the row Customer.findOne({ where: { phone } }) resolves to, 0
\* when it resolves to null; the answer when the phone is not looked at
findPlace_Any(rows, phone) == IF rows = << >> THEN 0 ELSE 1

\* the place of the row Customer.findOne({ where: { phone } }) resolves to, 0
\* when it resolves to null
findPlace(rows, phone) ==
    IF RowsOf(rows, phone) = {} THEN 0 ELSE SetMin(RowsOf(rows, phone))

\* the row of the place, NoRow for no place
RowAt(rows, place) == IF place = 0 THEN NoRow ELSE rows[place].row

\* what getCustomer reads for every phone
TableOf(rows) ==
    [p \in LedgerPhones |-> RowAt(rows, findPlace(rows, p))]

\* Customer.create without the unique index on phone
insertCustomer_NoIndex(rows, phone, row) ==
    Append(rows, [phone |-> phone, row |-> row])

\* Customer.create: the unique index on phone rejects a second row of a phone
insertCustomer(rows, phone, row) ==
    IF RowsOf(rows, phone) # {} THEN rows
    ELSE Append(rows, [phone |-> phone, row |-> row])

\* lines 35-80 of parseMessage on the three answers it awaited
GateOnChecks(checks, message, customerPhone) ==
    IF checks.isNewCustomer
    THEN NameStep(parseNameResponse(message), customerPhone)
    ELSE IF checks.needsLocation
    THEN LocationStep(parseLocationResponse(message), customerPhone)
    ELSE IF checks.needsCurrentLocation
    THEN CurrentLocationStep(parseLocationResponse(message), customerPhone)
    ELSE JsNull

\* what parseMessage returns once the three answers are in
ResolvedOnChecks(checks, catalog, owner, message, customerPhone) ==
    OrElse(GateOnChecks(checks, message, customerPhone),
           ResolveRules(catalog, owner, message, Trim(ToLowerCase(message)),
                        customerPhone))

\* the intents whose handlers write the sender's row
WritingIntents ==
    {"save_customer_name", "save_customer_location", "save_current_location"}

\* the statement the handler of the result issues, on the row findOne gave it
\* at the place seen: an INSERT for a name and no row, else an UPDATE of the
\* columns of the intent in the row of the place; nothing when
\* 'Customer not found' is thrown
WriteRow(rows, seen, result, t) ==
    CASE result.intent = "save_customer_name" ->
             IF seen = 0
             THEN insertCustomer(rows, result.data.phone,
                                 NewRow(Trim(result.data.name)))
             ELSE [rows EXCEPT ![seen].row.name = Trim(result.data.name)]
      [] result.intent = "save_customer_location" ->
             IF seen = 0 THEN rows
             ELSE [rows EXCEPT ![seen].row.location = Trim(result.data.location)]
      [] result.intent = "save_current_location" ->
             IF seen = 0 THEN rows
             ELSE [rows EXCEPT
                      ![seen].row.currentLocation =
                          Trim(result.data.currentLocation),
                      ![seen].row.lastLocationUpdate = t,
                      ![seen].row.sessionActive = TRUE]
      [] OTHER -> rows

\* a request that has not arrived
NoRequest ==
    [pc |-> "idle", From |-> OwnerPhone, body |-> << >>,
     checks |-> [isNewCustomer |-> FALSE, needsLocation |-> FALSE,
                 needsCurrentLocation |-> FALSE],
     result |-> JsNull, seen |-> 0]

\* the rows of the table for the start rows of the two customers
StartTable(r) ==
    LET entry(p) == IF r[p].exists THEN << [phone |-> p, row |-> r[p]] >>
                    ELSE << >>
    IN  entry("whatsapp:+911111111111") \o entry("whatsapp:+912222222222")

InitRace ==
    /\ customers = [p \in Phones |-> NoRow]
    /\ now = 0
    /\ req = Idle
    /\ menu = InitialMenu
    /\ ownerPhone = OwnerPhone
    /\ orders = << >> /\ shown = << >>
    /\ \E r \in [RacePhones -> StartRows] :
           racing = [rows |-> StartTable(r),
                     start |-> TableOf(StartTable(r)),
                     past |-> {TableOf(StartTable(r))},
                     slot |-> <<NoRequest, NoRequest>>,
                     overlapped |-> FALSE]

\* the other request is between its arrival and its reply
InFlight(k) == racing.slot[3 - k].pc \notin {"idle", "done"}

\* a step of the request k: the request as it is after the step, and the table
Stepped(k, request, rows) ==
    /\ racing' = [racing EXCEPT !.slot[k] = request,
                                !.rows = rows,
                                !.past = @ \cup {TableOf(rows)},
                                !.overlapped = @ \/ InFlight(k)]
    /\ UNCHANGED <<customers, now, req, menu, ownerPhone, orders, shown>>

\* POST /webhook is called
Arrive(k, phone, body) ==
    /\ racing.slot[k].pc = "idle"
    /\ Stepped(k, [racing.slot[k] EXCEPT !.pc = "new", !.From = phone,
                                         !.body = body],
               racing.rows)

\* line 31 of parseMessage: await isNewCustomer
ReadNew(k) ==
    /\ racing.slot[k].pc = "new"
    /\ Stepped(k, [racing.slot[k] EXCEPT
                      !.pc = "location",
                      !.checks.isNewCustomer =
                          isNewCustomer(RowAt(racing.rows,
                              findPlace(racing.rows, racing.slot[k].From)))],
               racing.rows)

\* line 32 of parseMessage: await needsLocation
ReadLocation(k) ==
    /\ racing.slot[k].pc = "location"
    /\ Stepped(k, [racing.slot[k] EXCEPT
                      !.pc = "current",
                      !.checks.needsLocation =
                          needsLocation(RowAt(racing.rows,
                              findPlace(racing.rows, racing.slot[k].From)))],
               racing.rows)

\* line 33 of parseMessage, and the rest of it: await needsCurrentLocation,
\* then the result follows from the three answers
ReadCurrent(k) ==
    /\ racing.slot[k].pc = "current"
    /\ LET checks ==
               [racing.slot[k].checks EXCEPT
                   !.needsCurrentLocation =
                       needsCurrentLocation(RowAt(racing.rows,
                           findPlace(racing.rows, racing.slot[k].From)), now)]
       IN  Stepped(k, [racing.slot[k] EXCEPT
                          !.pc = "parsed",
                          !.checks = checks,
                          !.result = ResolvedOnChecks(checks, menu, ownerPhone,
                                         racing.slot[k].body,
                                         racing.slot[k].From)],
                   racing.rows)

\* the handler of the intent up to its findOne, or all of it when it writes
\* nothing
Find(k) ==
    /\ racing.slot[k].pc = "parsed"
    /\ IF racing.slot[k].result.intent \in WritingIntents
       THEN Stepped(k, [racing.slot[k] EXCEPT
                           !.pc = "found",
                           !.seen = findPlace(racing.rows, racing.slot[k].From)],
                    racing.rows)
       ELSE Stepped(k, [racing.slot[k] EXCEPT !.pc = "done"], racing.rows)

\* the create or the update of the handler, and its reply
Write(k) ==
    /\ racing.slot[k].pc = "found"
    /\ Stepped(k, [racing.slot[k] EXCEPT !.pc = "done"],
               WriteRow(racing.rows, racing.slot[k].seen,
                        racing.slot[k].result, now))

NextRace ==
    \/ \E k \in Slots, phone \in RacePhones, m \in RaceMessages :
           Arrive(k, phone, m)
    \/ \E k \in Slots : ReadNew(k)
    \/ \E k \in Slots : ReadLocation(k)
    \/ \E k \in Slots : ReadCurrent(k)
    \/ \E k \in Slots : Find(k)
    \/ \E k \in Slots : Write(k)

\* two webhook requests whose awaits interleave in every way
SpecRace == InitRace /\ [][NextRace]_vars

----------------------------------------------------------------------------
(* The dialogue with payments *)

\* the payment commands of a sender of the running system
PaymentLiveMessages == { m_PayCod, m_Paid \o sp \o m_txn }

NextLife ==
    \/ Next
    \/ \E phone \in Phones : \E m \in PaymentLiveMessages :
           Receive(phone, TextBody(m))
    \/ HandlePaymentMethodSelection
    \/ HandlePaymentConfirmation

\* the running system from an empty table, with senders who also pay
SpecLife == Init /\ [][NextLife]_vars

----------------------------------------------------------------------------
(* The owner phone left unset *)

\* the JavaScript value undefined: process.env.RESTAURANT_OWNER_PHONE when the
\* variable is not set, and req.body.From of a request without the field
Undefined == "undefined"

\* the From of the requests: the phones, or none
Senders == Phones \cup {Undefined}

\* any table, with no row for the missing phone; the owner phone is not
\* configured
InitUnset ==
    /\ \E r \in Snapshots :
           customers = [p \in Senders |-> IF p = Undefined THEN NoRow ELSE r]
    /\ now \in ClockSamples
    /\ req = Idle
    /\ menu = InitialMenu
    /\ ownerPhone = Undefined
    /\ orders = << >> /\ shown = << >> /\ racing = << >>

NextUnset ==
    \E sender \in Senders, m \in Corpus : Receive(sender, TextBody(m))

\* one request resolved by a deployment without RESTAURANT_OWNER_PHONE
SpecUnset == InitUnset /\ [][NextUnset]_vars

----------------------------------------------------------------------------
(* An order and a menu command in flight *)

m_item_2 == W.item \o sp \o <<"2">>

\* the order of a customer, and the owner's commands on the item ordered
StaleMessages(phone) ==
    IF phone = OwnerPhone
    THEN { W.toggle \o sp \o m_item_2,
           W.delete \o sp \o m_item_2,
           W.edit \o sp \o m_item_2 \o sp \o W.price \o sp \o <<"3","0">>,
           W.edit \o sp \o W.item \o sp \o <<"1">> \o sp \o W.price \o sp \o <<"3","0">> }
    ELSE { W.order \o sp \o <<"2">> \o sp \o m_naan,
           W.order \o sp \o <<"2">> \o sp \o <<"c","h","i","c","k","e","n">> \o sp
               \o <<"b","i","r","y","a","n","i",","," ","1">> \o sp \o m_naan }

\* both senders have an open session
InitStale ==
    /\ customers = [p \in Phones |-> ActiveRow]
    /\ now = 0
    /\ req = Idle
    /\ menu = InitialMenu
    /\ ownerPhone = OwnerPhone
    /\ orders = << >> /\ shown = << >> /\ racing = << >>

\* line 390 of handleOrderRequest, line 19 of createOrder: the handler of the
\* order waits for the customers table, with the items parseMessage resolved
\* in hand, and the route is free to serve another request
AwaitCreateOrder ==
    /\ Dispatching("place_order")
    /\ racing = << >>
    /\ racing' = << req >>
    /\ req' = Idle
    /\ UNCHANGED <<customers, now, menu, ownerPhone, orders, shown>>

\* the handler of the order goes on when the route is between requests
ResumeCreateOrder ==
    /\ req.stage = "idle"
    /\ racing # << >>
    /\ req' = racing[1]
    /\ racing' = << >>
    /\ UNCHANGED <<customers, now, menu, ownerPhone, orders, shown>>

NextStale ==
    \/ \E phone \in Phones : \E m \in StaleMessages(phone) :
           Receive(phone, TextBody(m))
    \/ AwaitCreateOrder
    \/ ResumeCreateOrder
    \/ HandleOrderRequest
    \/ HandleOwnerEditItem
    \/ HandleOwnerDeleteItem
    \/ HandleOwnerToggleItem
    \/ HandleWithoutWrite
    \/ SendResponse

\* an order message and the owner's menu commands, served at the same time
SpecStale == InitStale /\ [][NextStale]_vars

----------------------------------------------------------------------------
(* The owner's menu commands *)

m_tea == <<"t","e","a">>

\* the menu commands the owner sends, some with a price of 0
MenuEditMessages ==
    { W.add \o sp \o W.item \o sp \o m_tea \o sp \o <<"2","0">>,
      W.add \o sp \o W.item \o sp \o m_tea \o sp \o <<"0">>,
      W.edit \o sp \o m_item_2 \o sp \o W.price \o sp \o <<"3","0">>,
      W.edit \o sp \o m_item_2 \o sp \o W.price \o sp \o <<"0">>,
      W.edit \o sp \o W.item \o sp \o m_tea \o sp \o W.price \o sp \o <<"1","5">>,
      a_rename,
      W.delete \o sp \o m_item_2,
      W.delete \o sp \o W.item \o sp \o <<"1">>,
      W.toggle \o sp \o W.item \o sp \o <<"3">> }

NextMenu ==
    \/ \E m \in MenuEditMessages : Receive(OwnerPhone, TextBody(m))
    \/ HandleOwnerAddItem
    \/ HandleOwnerEditItem
    \/ HandleOwnerDeleteItem
    \/ HandleOwnerToggleItem
    \/ SendResponse

\* the owner's menu commands, one after the other, from the menu as deployed
SpecMenu == Init /\ [][NextMenu]_vars

----------------------------------------------------------------------------
(* The replies of the save handlers *)

\* the opening sentence of each reply of the three save handlers: of the
\* message generated from the row the write returned, and of the text the
\* catch of the handler returns
NameConfirmation == "Nice to meet you, ${name}!"
NameCaught == "Thank you! I'll remember your name for future orders."
LocationConfirmation == "Perfect! We've saved your location: *${location}*"
LocationCaught == "Perfect! I've saved your location."
CurrentLocationConfirmation == "Got it, ${name}! You're currently at: *${currentLocation}*"
CurrentLocationCaught == "Perfect! I've noted your current location."

\* the handler returned this text
RepliedWith(text) ==
    req' = [stage |-> "replied", From |-> req.From, body |-> req.body,
            at |-> req.at, checks |-> req.checks, result |-> req.result,
            reply |-> text]

\* handleSaveCustomerName, the write returned: lines 216-221
SaveCustomerNameReturned ==
    /\ Dispatching("save_customer_name")
    /\ customers' = updateCustomerName(customers, req.result.data.phone,
                                       req.result.data.name)
    /\ RepliedWith(NameConfirmation)
    /\ UNCHANGED <<now, menu, ownerPhone, orders, shown, racing>>

\* handleSaveCustomerName, the write rejected (the table is out of reach):
\* the catch, lines 222-227
SaveCustomerNameCaught ==
    /\ Dispatching("save_customer_name")
    /\ RepliedWith(NameCaught)
    /\ UNCHANGED <<customers, now, menu, ownerPhone, orders, shown, racing>>

\* handleSaveCustomerLocation, the write returned: lines 259-265
SaveCustomerLocationReturned ==
    /\ Dispatching("save_customer_location")
    /\ customers[req.result.data.phone].exists
    /\ customers' = updateCustomerLocation(customers, req.result.data.phone,
                                           req.result.data.location)
    /\ RepliedWith(LocationConfirmation)
    /\ UNCHANGED <<now, menu, ownerPhone, orders, shown, racing>>

\* handleSaveCustomerLocation, the write rejected (the table is out of reach,
\* or 'Customer not found'): the catch, lines 266-270
SaveCustomerLocationCaught ==
    /\ Dispatching("save_customer_location")
    /\ RepliedWith(LocationCaught)
    /\ UNCHANGED <<customers, now, menu, ownerPhone, orders, shown, racing>>

\* handleSaveCurrentLocation, the write returned: lines 302-307
SaveCurrentLocationReturned ==
    /\ Dispatching("save_current_location")
    /\ customers[req.result.data.phone].exists
    /\ customers' = updateCurrentLocation(customers, req.result.data.phone,
                                          req.result.data.currentLocation, now)
    /\ RepliedWith(CurrentLocationConfirmation)
    /\ UNCHANGED <<now, menu, ownerPhone, orders, shown, racing>>

\* handleSaveCurrentLocation, the write rejected: the catch, lines 308-312
SaveCurrentLocationCaught ==
    /\ Dispatching("save_current_location")
    /\ RepliedWith(CurrentLocationCaught)
    /\ UNCHANGED <<customers, now, menu, ownerPhone, orders, shown, racing>>

\* the answers of a customer in the dialogue
DialogueMessages == { W.hi, m_asha, m_road, W.menu }

NextTold ==
    \/ \E phone \in Phones : \E m \in DialogueMessages :
           Receive(phone, TextBody(m))
    \/ HandleRequestCustomerName
    \/ SaveCustomerNameReturned
    \/ SaveCustomerNameCaught
    \/ SaveCustomerLocationReturned
    \/ SaveCustomerLocationCaught
    \/ SaveCurrentLocationReturned
    \/ SaveCurrentLocationCaught
    \/ HandleWithoutWrite
    \/ SendResponse
    \/ Tick

\* the dialogue with a customers table that may reject a write
SpecTold == Init /\ [][NextTold]_vars

----------------------------------------------------------------------------
(* The session states of the dialogue gate, and the properties *)

\* the row has a name that is not the placeholder
Named(c) == c.exists /\ c.name # <<>> /\ c.name # PlaceholderName

\* the current location of the row was confirmed within the window before t
Fresh(c, t) ==
    /\ c.currentLocation # <<>>
    /\ c.sessionActive
    /\ c.lastLocationUpdate # NoDate
    /\ t - c.lastLocationUpdate <= SessionWindowMs

\* the state of the gate for a row at time t
SessionState(c, t) ==
    IF ~Named(c) THEN "NEW"
    ELSE IF c.location = <<>> THEN "NAME_CAPTURED"
    ELSE IF ~Fresh(c, t) THEN "ONBOARDED_STALE_SESSION"
    ELSE "ACTIVE"

\* parseMessage has returned and the handler has not run yet: the table is
\* the one the resolver read
Parsed == req.stage = "parsed"

Sender == customers[req.From]

FromCustomer == req.From # ownerPhone

\* the message of the request, trimmed and lower-cased
Norm == Trim(ToLowerCase(req.body.text))

NonPayment == ~isPaymentCommand(Norm)

\* lastLocationUpdate of a row, NoDate without a row
Stamp(c) == IF c.exists THEN c.lastLocationUpdate ELSE NoDate

OwnerIntents ==
    {"owner_orders", "owner_complete_order", "owner_cancel_order",
     "owner_stats", "owner_menu_manage", "owner_add_item",
     "owner_edit_item", "owner_delete_item", "owner_toggle_item"}

IntentTags ==
    OnboardingIntents \cup ReadOnlyIntents \cup OwnerIntents
        \cup {"place_order", "select_payment_method", "confirm_payment"}

\* C1: for every sender and every onboarding state, a message that trimmed
\* and lower-cased is "pay cod" or "pay upi" resolves to select_payment_method
\* with that method: the payment check comes before the gate.
C1_PayCommandWins ==
    \A c \in {W.cod, W.upi} :
        (req.stage # "idle" /\ HasBody(req.body) /\ Norm = W.pay \o sp \o c)
            => /\ req.stage # "failed"
               /\ req.result.intent = "select_payment_method"
               /\ req.result.data.method = c

\* a new customer typed "Pay COD" and got the payment intent
C1_Witness ==
    /\ Parsed /\ FromCustomer
    /\ SessionState(Sender, req.at) = "NEW"
    /\ req.body.text = m_PayCod
    /\ req.result.intent = "select_payment_method"
    /\ req.result.data.method = W.cod

\* C2: for a sender that is not the owner and a message that is no payment
\* command, the intent is a name intent in NEW, a home-location intent in
\* NAME_CAPTURED, a current-location intent in ONBOARDED_STALE_SESSION, and
\* no onboarding intent in ACTIVE.
C2_GateSafety ==
    (Parsed /\ FromCustomer /\ NonPayment) =>
        /\ SessionState(Sender, req.at) = "NEW" =>
               req.result.intent \in {"save_customer_name", "request_customer_name"}
        /\ SessionState(Sender, req.at) = "NAME_CAPTURED" =>
               req.result.intent \in
                   {"save_customer_location", "request_customer_location"}
        /\ SessionState(Sender, req.at) = "ONBOARDED_STALE_SESSION" =>
               req.result.intent \in
                   {"save_current_location", "request_current_location"}
        /\ SessionState(Sender, req.at) = "ACTIVE" =>
               req.result.intent \notin OnboardingIntents

\* a customer with a name, no home location and no current location sent an
\* address, and it was taken as the home location
C2_Witness ==
    /\ Parsed /\ FromCustomer
    /\ SessionState(Sender, req.at) = "NAME_CAPTURED"
    /\ Sender.currentLocation = <<>>
    /\ req.body.text = m_road
    /\ req.result.intent = "save_customer_location"

\* C3: for a phone in NEW that is not the owner, a message that is no payment
\* command and that the name heuristic rejects resolves to
\* request_customer_name, and handling that intent leaves the customers table
\* as it was.
C3_NewAsksName ==
    /\ []((Parsed /\ FromCustomer /\ NonPayment
              /\ SessionState(Sender, req.at) = "NEW"
              /\ IsNull(parseNameResponse(req.body.text)))
             => req.result.intent = "request_customer_name")
    /\ [][(Dispatching("request_customer_name") /\ req'.stage = "replied")
             => customers' = customers]_vars

\* a phone whose row carries the placeholder name said "hi", was asked for
\* its name, and the request was answered
C3_Witness ==
    /\ req.stage = "replied" /\ FromCustomer
    /\ req.body.text = W.hi
    /\ req.result.intent = "request_customer_name"
    /\ Sender.exists /\ Sender.name = PlaceholderName

\* C4: while the gate awaits a location (NAME_CAPTURED or
\* ONBOARDED_STALE_SESSION), a message that is a reserved keyword is asked the
\* same location question again, and handling it writes neither location
\* field of the row.
C4_KeywordIsNoLocation ==
    /\ []((Parsed /\ FromCustomer /\ Norm \in ReservedKeywords) =>
             /\ SessionState(Sender, req.at) = "NAME_CAPTURED" =>
                    req.result.intent = "request_customer_location"
             /\ SessionState(Sender, req.at) = "ONBOARDED_STALE_SESSION" =>
                    req.result.intent = "request_current_location")
    /\ [][(/\ Parsed /\ FromCustomer /\ Norm \in ReservedKeywords
           /\ SessionState(Sender, req.at) \in
                  {"NAME_CAPTURED", "ONBOARDED_STALE_SESSION"}
           /\ req'.stage = "replied")
             => /\ customers'[req.From].location = Sender.location
                /\ customers'[req.From].currentLocation = Sender.currentLocation]_vars

\* a customer with a name and no home location typed " HELP ", was asked for
\* the location again, and still has none after the reply
C4_Witness ==
    /\ req.stage = "replied" /\ FromCustomer
    /\ req.body.text = <<" ","H","E","L","P"," ">>
    /\ req.result.intent = "request_customer_location"
    /\ Named(Sender) /\ Sender.location = <<>>

\* C5: a sender whose phone is not the owner phone never gets an owner intent,
\* whatever the message and the state of the session.
C5_OwnerIntentsOnlyForOwner ==
    (req.stage \in {"parsed", "replied"} /\ FromCustomer)
        => req.result.intent \notin OwnerIntents

\* an active customer typed the owner command "stats" and got unknown
C5_Witness ==
    /\ Parsed /\ FromCustomer
    /\ SessionState(Sender, req.at) = "ACTIVE"
    /\ Norm = W.stats
    /\ ~IsNull(parseOwnerCommand(Norm))
    /\ req.result.intent = "unknown"

\* C6: no message from the owner phone yields an onboarding intent, whatever
\* the row of the owner phone holds.
C6_OwnerSkipsGate ==
    (req.stage \in {"parsed", "replied"} /\ req.From = ownerPhone)
        => req.result.intent \notin OnboardingIntents

\* the owner, whose row has a name and no home location, typed an address and
\* was not taken through the location step
C6_Witness ==
    /\ Parsed /\ req.From = ownerPhone
    /\ SessionState(Sender, req.at) = "NAME_CAPTURED"
    /\ req.body.text = m_road
    /\ req.result.intent = "unknown"

\* C7: once save_current_location was applied at time t (the row's
\* lastLocationUpdate), a message of the customer resolved at a time up to
\* t + 30 min passes the gate, and one resolved later is asked for the current
\* location; and lastLocationUpdate moves only when a save_current_location
\* is handled, to the time of the clock then, which happens only for a row
\* without a stamp or with one older than the window: no other message and no
\* passing of time changes it.
C7_WindowRegression ==
    /\ []((Parsed /\ FromCustomer /\ NonPayment /\ Stamp(Sender) # NoDate) =>
             IF req.at > Stamp(Sender) + SessionWindowMs
             THEN req.result.intent \in
                      {"save_current_location", "request_current_location"}
             ELSE req.result.intent \notin OnboardingIntents)
    /\ [][\A p \in Phones :
             Stamp(customers'[p]) # Stamp(customers[p]) =>
                 /\ Dispatching("save_current_location")
                 /\ p = req.From
                 /\ Stamp(customers'[p]) = now
                 /\ \/ Stamp(customers[p]) = NoDate
                    \/ req.at > Stamp(customers[p]) + SessionWindowMs]_vars

\* a customer whose location was saved at t writes one millisecond after
\* t + 30 min and is asked for the current location again
C7_Witness ==
    /\ Parsed /\ FromCustomer
    /\ Stamp(Sender) # NoDate
    /\ req.at = Stamp(Sender) + SessionWindowMs + 1
    /\ req.body.text = W.hi
    /\ req.result.intent = "request_current_location"

\* C8, as amended: needsCurrentLocation is true iff the row has a name that
\* is not the placeholder and (currentLocation is absent, or
\* lastLocationUpdate is absent or more than 30 min old, or sessionActive is
\* false); the home location is not consulted.
C8_NeedsCurrentLocation ==
    (Parsed /\ ~IsNull(req.checks)) =>
        req.checks.needsCurrentLocation =
            (/\ Named(Sender)
             /\ \/ Sender.currentLocation = <<>>
                \/ Sender.lastLocationUpdate = NoDate
                \/ req.at - Sender.lastLocationUpdate > SessionWindowMs
                \/ ~Sender.sessionActive)

\* a row with a name and no home location, for which the check was true
C8_Witness ==
    /\ Parsed /\ ~IsNull(req.checks)
    /\ Named(Sender) /\ Sender.location = <<>>
    /\ req.checks.needsCurrentLocation

\* C8, as stated: needsCurrentLocation is true iff the row is onboarded (a
\* name that is not the placeholder and a home location) and (currentLocation
\* absent, or lastLocationUpdate older than 30 min, or sessionActive false).
C8_AsStated ==
    (Parsed /\ ~IsNull(req.checks)) =>
        req.checks.needsCurrentLocation =
            (/\ Named(Sender) /\ Sender.location # <<>>
             /\ \/ Sender.currentLocation = <<>>
                \/ Sender.lastLocationUpdate = NoDate
                \/ req.at - Sender.lastLocationUpdate > SessionWindowMs
                \/ ~Sender.sessionActive)

\* C9: for every request the webhook passes on (a text, the empty string, no
\* Body), parseMessage returns without throwing, with one intent tag, and the
\* tag unknown carries the message as it came.
C9_NeverThrows ==
    req.stage # "idle" =>
        /\ req.stage # "failed"
        /\ req.result.intent \in IntentTags
        /\ req.result.intent = "unknown" =>
               req.result.data.originalMessage = req.body.text

\* C10: for "paid <token>" and "confirm payment <token>" the intent is
\* confirm_payment and transactionId is the rest of the message as the sender
\* typed it.
C10_TransactionIdAsTyped ==
    \A i \in 1..Len(PaymentVerbs) :
        (req.stage # "idle" /\ HasBody(req.body)
           /\ VerbThenRest(Norm, PaymentVerbs[i]))
            => /\ req.stage # "failed"
               /\ req.result.intent = "confirm_payment"
               /\ req.result.data.transactionId =
                      Trim(From(Trim(req.body.text), Len(PaymentVerbs[i]) + 1))

----------------------------------------------------------------------------
(* Order messages *)

\* the gate does not intercept the sender of the request
PastGate ==
    req.From = ownerPhone \/ SessionState(Sender, req.at) = "ACTIVE"

\* the segments of the order message of the request
Segments == SplitItems(Trim(MultiItemsText(Norm)))

\* the places of the segments that resolve against the catalog
Resolving ==
    {i \in 1..Len(Segments) :
        ~IsNull(parseSingleItemSegment(menu, Trim(Segments[i])))}

\* the j-th of the places in S, in ascending order
Nth(S, j) == CHOOSE i \in S : Cardinality({h \in S : h < i}) = j - 1

\* the lines of an order: its items, or the one line of the single shape
Lines(data) == IF "items" \in DOMAIN data THEN data.items ELSE << data >>

RECURSIVE LineTotals(_)
LineTotals(lines) ==
    IF lines = <<>> THEN 0
    ELSE lines[Len(lines)].total + LineTotals(SubSeq(lines, 1, Len(lines) - 1))

\* C11: an order message of a sender past the gate of which two or more
\* segments resolve gives place_order with isMultipleItems true, one line per
\* resolving segment in the order of the message, each line with a quantity of
\* at least 1 and total = quantity x price, and totalAmount the sum of the line
\* totals; "order 2 chicken biryani, 1 naan" gives 598 + 49 = 647.
C11_MultiOrderTotals ==
    (Parsed /\ PastGate /\ NonPayment /\ MultiMatches(Norm)
        /\ Cardinality(Resolving) >= 2) =>
        /\ req.result.intent = "place_order"
        /\ DOMAIN req.result.data = {"items", "totalAmount", "isMultipleItems"}
        /\ req.result.data.isMultipleItems = TRUE
        /\ Len(req.result.data.items) = Cardinality(Resolving)
        /\ \A j \in 1..Len(req.result.data.items) :
              /\ req.result.data.items[j] =
                     parseSingleItemSegment(menu,
                                            Trim(Segments[Nth(Resolving, j)]))
              /\ req.result.data.items[j].quantity >= 1
              /\ \E i \in 1..Len(menu) :
                     req.result.data.items[j].menuItem = menu[i]
              /\ req.result.data.items[j].total =
                     req.result.data.items[j].quantity
                         * req.result.data.items[j].menuItem.price
        /\ req.result.data.totalAmount = LineTotals(req.result.data.items)
        /\ (Norm = ToLowerCase(o_two_lines) /\ menu = InitialMenu) =>
               /\ Len(req.result.data.items) = 2
               /\ req.result.data.items[1].quantity = 2
               /\ req.result.data.items[1].menuItem = InitialMenu[1]
               /\ req.result.data.items[1].total = 598
               /\ req.result.data.items[2].quantity = 1
               /\ req.result.data.items[2].menuItem = InitialMenu[2]
               /\ req.result.data.items[2].total = 49
               /\ req.result.data.totalAmount = 647

\* an active customer ordered three lines, two of them of the same item
C11_Witness ==
    /\ Parsed /\ FromCustomer
    /\ SessionState(Sender, req.at) = "ACTIVE"
    /\ req.body.text = o_three_lines
    /\ menu = InitialMenu
    /\ req.result.intent = "place_order"
    /\ Len(req.result.data.items) = 3
    /\ req.result.data.totalAmount = 49 + 598 + 147

\* C12: an order message of which exactly one segment resolves gives
\* place_order in the single shape {quantity, menuItem, total}, with total =
\* quantity x price; when no segment resolves the single-item grammar decides:
\* place_order in the single shape if it resolves, no place_order if not.
C12_SingleShape ==
    (Parsed /\ PastGate /\ NonPayment) =>
        /\ (MultiMatches(Norm) /\ Cardinality(Resolving) = 1) =>
              /\ req.result.intent = "place_order"
              /\ DOMAIN req.result.data = {"quantity", "menuItem", "total"}
              /\ req.result.data =
                     parseSingleItemSegment(menu,
                                            Trim(Segments[Nth(Resolving, 1)]))
              /\ req.result.data.total =
                     req.result.data.quantity * req.result.data.menuItem.price
        /\ (~MultiMatches(Norm) \/ Cardinality(Resolving) = 0) =>
              /\ req.result.intent = "place_order"
                     <=> ~IsNull(parseSingleOrderMessage(menu, Norm))
              /\ req.result.intent = "place_order" =>
                    /\ DOMAIN req.result.data = {"quantity", "menuItem", "total"}
                    /\ req.result.data.total =
                           req.result.data.quantity
                               * req.result.data.menuItem.price

\* "order 2 naan, 1 pizza": the pizza is dropped, the order is 2 naan in the
\* single shape
C12_Witness ==
    /\ Parsed /\ FromCustomer
    /\ SessionState(Sender, req.at) = "ACTIVE"
    /\ req.body.text = o_one_of_two
    /\ menu = InitialMenu
    /\ Len(Segments) = 2
    /\ req.result.intent = "place_order"
    /\ req.result.data = [quantity |-> 2, menuItem |-> InitialMenu[2], total |-> 98]

\* the text of the segment before its first \s character
QuantityToken(segment) ==
    LET blanks == {i \in 1..Len(segment) : segment[i] \in WhiteSpace}
    IN  IF blanks = {} THEN segment
        ELSE SubSeq(segment, 1, SetMin(blanks) - 1)

\* the token is a numeral of an integer that is at least 1
PositiveInteger(token) ==
    /\ token # <<>>
    /\ AllIn(token, Digits)
    /\ ParseInt(token) >= 1

\* C13: an order message none of whose segments has an integer of at least 1
\* for its quantity (0, -2, 1.5) gives no place_order.
C13_BadQuantityFails ==
    (Parsed /\ PastGate /\ NonPayment /\ MultiMatches(Norm)
        /\ \A i \in 1..Len(Segments) :
               ~PositiveInteger(QuantityToken(Trim(Segments[i]))))
        => req.result.intent # "place_order"

\* the terms of the messages "order <n> <term>" that name an item
NameTerms ==
    {m_naan, <<"a","n">>, <<"p","i","z","z","a">>,
     <<"f","i","s","h"," ","c","u","r","r","y">>}

\* the places in the catalog of the available items whose name contains the
\* term, whatever the case of the letters
Offered(term) ==
    {i \in 1..Len(menu) :
        /\ menu[i].available
        /\ Includes(ToLowerCase(menu[i].name), ToLowerCase(term))}

\* C14: every line of a place_order carries an item of the catalog that is
\* available; and "order <n> <term>" resolves to the first item in catalog
\* order that is available and whose name contains the term, and to no
\* place_order when there is none.
C14_FirstAvailableMatch ==
    (Parsed /\ PastGate /\ NonPayment) =>
        /\ req.result.intent = "place_order" =>
               \A j \in 1..Len(Lines(req.result.data)) :
                   \E i \in 1..Len(menu) :
                       /\ menu[i].available
                       /\ Lines(req.result.data)[j].menuItem = menu[i]
        /\ \A term \in NameTerms, n \in {<<"1">>, <<"2">>} :
               Norm = W.order \o sp \o n \o sp \o term =>
                   IF Offered(term) = {}
                   THEN req.result.intent # "place_order"
                   ELSE /\ req.result.intent = "place_order"
                        /\ req.result.data.menuItem = menu[SetMin(Offered(term))]

\* "order 2 naan" with Garlic Naan before Naan in the catalog: the order is
\* for Garlic Naan
C14_Witness ==
    /\ Parsed /\ FromCustomer
    /\ SessionState(Sender, req.at) = "ACTIVE"
    /\ req.body.text = o_single
    /\ menu = GarlicFirstMenu
    /\ req.result.intent = "place_order"
    /\ req.result.data.menuItem.name = n_garlic_naan

----------------------------------------------------------------------------
(* The order of the rules *)

PaymentIntents ==
    {"select_payment_method", "confirm_payment", "payment_status",
     "payment_options", "payment_help"}

\* the place in the order of precedence of the rule an intent belongs to
RuleOf(intent) ==
    IF intent \in PaymentIntents THEN 1
    ELSE IF intent = "place_order" THEN 2
    ELSE IF intent = "help" THEN 3
    ELSE IF intent = "order_status" THEN 4
    ELSE IF intent \in OwnerIntents THEN 5
    ELSE IF intent = "show_menu" THEN 6
    ELSE IF intent = "search_menu" THEN 7
    ELSE IF intent = "unknown" THEN 8
    ELSE 0

\* the k-th rule matches the message of the request, by its own test
RuleMatches(k) ==
    CASE k = 1 -> isPaymentCommand(Norm)
      [] k = 2 -> ~IsNull(parseOrderMessage(menu, Norm))
      [] k = 3 -> isHelpRequest(Norm)
      [] k = 4 -> isStatusRequest(Norm)
      [] k = 5 -> req.From = ownerPhone /\ ~IsNull(parseOwnerCommand(Norm))
      [] k = 6 -> isGreeting(Norm) \/ isMenuRequest(Norm)
      [] k = 7 -> ~IsNull(parseSearchMessage(Norm))
      [] k = 8 -> TRUE

MatchingRules == {k \in 1..8 : RuleMatches(k)}

C16_AddItemAsTyped ==
    (Parsed /\ req.From = ownerPhone
        /\ req.body.text \in {a_samosa_described, a_samosa}) =>
        /\ req.result.intent = "owner_add_item"
        /\ req.result.data.name = <<"S","a","m","o","s","a">>
        /\ PriceValue(req.result.data.price) = 25
        /\ req.result.data.description =
               IF req.body.text = a_samosa THEN <<>>
               ELSE From(a_samosa_described, Len(a_samosa) + 2)

\* the menu commands whose argument is any text
MenuCommandPrefixes == {p_add_item, p_edit_item, p_delete_item, p_toggle_item}

\* C17: for the owner phone, a message in the form of a menu command (add
\* item, edit item ... price, edit item ... name, delete item, toggle item)
\* resolves to the intent of that command, whatever the name or text in it.
C17_MenuCommandsResolve ==
    (Parsed /\ req.From = ownerPhone
        /\ (\E prefix \in MenuCommandPrefixes : StartsWith(Norm, prefix))
        /\ ~IsNull(parseOwnerCommand(Norm))) =>
        req.result.intent = parseOwnerCommand(Norm).intent

\* the search verbs that contain no keyword of a rule above the search rule
PlainSearchVerbs == {W.search, W.find, W.do \o sp \o W.you \o sp \o W.have}

\* C18: for a sender past the gate, "search <term>", "find <term>" and "do you
\* have <term>" resolve to search_menu with that term, whatever the term.
C18_SearchResolves ==
    \A verb \in PlainSearchVerbs :
        (Parsed /\ PastGate /\ StartsWith(Norm, verb \o sp)
            /\ Len(Norm) > Len(verb) + 1) =>
            /\ req.result.intent = "search_menu"
            /\ req.result.data.searchTerm = Trim(From(Norm, Len(verb) + 2))

----------------------------------------------------------------------------
(* Two calls *)

\* both calls read the clock on the same side of the end of the freshness
\* window of the sender's row
SameSide ==
    Stamp(Sender) # NoDate =>
        ((req.at - Stamp(Sender) > SessionWindowMs)
             = (req.again.at - Stamp(Sender) > SessionWindowMs))

----------------------------------------------------------------------------
(* The frame of the resolver *)

\* the step is one call of parseMessage by the route
ResolverStep ==
    req.stage = "idle" /\ req'.stage \in {"parsed", "failed"}

\* the step is one handler of the switch answering the request in hand
HandlerStep ==
    req.stage = "parsed" /\ req'.stage = "replied"

----------------------------------------------------------------------------
(* Lookups that fail *)

\* the request in hand was resolved while a collaborator was out of reach
\* and a lookup was made of it: the three gate checks always read the customers
\* table, an order message that names an item of the catalog reads menu.json
ResolvedWhileDown ==
    /\ req.stage \in {"parsed", "failed"}
    /\ req.down = "catalog" =>
           parseMessage(customers, menu, ownerPhone, req.at,
                        req.body, req.From).intent = "place_order"

\* C21: when a lookup of the customers table or of the catalog fails while a
\* message is resolved, parseMessage reports a failure to the route and returns
\* no intent.
C21_LookupFailureSurfaces ==
    ResolvedWhileDown => HasThrown(req.result)

----------------------------------------------------------------------------
(* The end of the first onboarding *)

\* the row of a phone after handleSaveCustomerName and then
\* handleSaveCustomerLocation have saved one name and one location for it,
\* from no row at all
OnboardedRow(phone) ==
    updateCustomerLocation(
        updateCustomerName([p \in Phones |-> NoRow], phone, TitleCase(m_asha)),
        phone, m_road)[phone]

\* C24: once the name and one location of a new customer are saved, the
\* message menu resolves to show_menu and an order message to place_order.
C24_AllSetAfterLocation ==
    (/\ Parsed /\ FromCustomer
     /\ Sender = OnboardedRow(req.From)
     /\ Norm \in {W.menu, o_single})
        => req.result.intent =
               IF Norm = W.menu THEN "show_menu" ELSE "place_order"

----------------------------------------------------------------------------
(* The intents of the resolver *)

\* a row before the name, before the location, before the location of the
\* session, and past the gate
GateRows ==
    {NoRow, NewRow(TitleCase(m_asha)),
     [NewRow(TitleCase(m_asha)) EXCEPT !.location = m_road], ActiveRow}

\* the intents parseMessage returns over the messages of the corpus, both
\* senders and the four rows
ReturnedIntents ==
    {parseMessage([p \in Phones |-> r], InitialMenu, OwnerPhone, 0,
                  TextBody(m), phone).intent :
         r \in GateRows, phone \in Phones, m \in Corpus}

\* C29, as amended: the intents parseMessage returns are a fixed enumeration
\* of exactly 26 distinct tags, each of which it does return.
C29_TwentySixIntents ==
    /\ Parsed => req.result.intent \in IntentTags
    /\ ReturnedIntents = IntentTags
    /\ Cardinality(IntentTags) = 26

\* the owner's "delete item Naan" has been resolved to owner_delete_item, one
\* of the tags past the twenty-second
C29_Witness ==
    /\ Parsed /\ req.From = ownerPhone
    /\ req.body.text = a_delete_naan
    /\ req.result.intent = "owner_delete_item"

\* C29, as stated: the intents parseMessage returns are exactly 22 distinct
\* tags.
C29_AsStated ==
    /\ Parsed => req.result.intent \in ReturnedIntents
    /\ Cardinality(ReturnedIntents) = 22

----------------------------------------------------------------------------
(* The name and the location heuristics *)

\* the message trimmed and without its leading filler phrase
Candidate(message, prefixes) == Trim(StripPrefix(Trim(message), prefixes))

\* 2-50 characters of the name alphabet and no reserved keyword
NameAcceptable(candidate) ==
    /\ Len(candidate) >= NameMinLen /\ Len(candidate) <= NameMaxLen
    /\ AllIn(candidate, NameChars)
    /\ ToLowerCase(candidate) \notin NameSkipMessages

\* 3-200 characters of the location alphabet and no reserved keyword
LocationAcceptable(candidate) ==
    /\ Len(candidate) >= LocationMinLen /\ Len(candidate) <= LocationMaxLen
    /\ AllIn(candidate, LocationChars)
    /\ ToLowerCase(candidate) \notin LocationSkipMessages

\* C30: the name heuristic accepts a message iff its stripped candidate is
\* 2-50 characters of the name alphabet and no reserved keyword, and the
\* location heuristic accepts iff its stripped candidate is 3-200 characters
\* of the location alphabet and no reserved keyword.
C30_HeuristicsOnCandidate ==
    (Parsed /\ FromCustomer /\ NonPayment) =>
        /\ isNewCustomer(Sender) =>
               ((req.result.intent = "save_customer_name")
                    <=> NameAcceptable(Candidate(req.body.text, NamePrefixes)))
        /\ (~isNewCustomer(Sender) /\ needsLocation(Sender)) =>
               ((req.result.intent = "save_customer_location")
                    <=> LocationAcceptable(Candidate(req.body.text,
                                                     LocationPrefixes)))

----------------------------------------------------------------------------
(* The owner's `paid` command *)

\* the request in hand is the owner's `paid k2x9`
OwnerSentPaid ==
    /\ req.stage \in {"parsed", "replied"}
    /\ req.From = ownerPhone
    /\ Norm = W.paid \o sp \o m_code

\* C25: when the owner sends `paid <short code>` the message resolves to
\* owner_mark_paid and not to a customer's payment confirmation, and once it is
\* handled the order whose id ends in the code has paymentStatus paid
C25_OwnerPaidMarksOrder ==
    OwnerSentPaid =>
        /\ req.result.intent = "owner_mark_paid"
        /\ req.stage = "replied" =>
               \A i \in getOrderByShortCode(orders, m_code) :
                   orders[i].paymentStatus = "paid"

----------------------------------------------------------------------------
(* The number of an order in the owner's listing *)

\* the position of the order with the id
PositionOf(table, orderId) ==
    CHOOSE i \in 1..Len(table) : table[i].orderId = orderId

\* no two orders were created in the same second
DistinctSeconds(table) ==
    \A i, j \in 1..Len(table) :
        i # j => table[i].createdAt # table[j].createdAt

\* C26: `done 1` completes the order the owner's latest listing showed as
\* number 1 and that is still pending, whatever other order was created,
\* completed or cancelled since the listing
C26_DoneCompletesShown ==
    [][(/\ HandleOwnerCompleteOrder
        /\ req.result.data.orderId = <<"1">>
        /\ shown # << >>
        /\ orders[PositionOf(orders, shown[1])].status = "pending"
        /\ DistinctSeconds(orders))
           => orders' = updateOrderStatus(orders, PositionOf(orders, shown[1]),
                                          "completed")]_vars

----------------------------------------------------------------------------
(* The lifecycle of an order *)

\* the step is one of the owner's order commands being handled
OwnerOrderCommand == HandleOwnerCompleteOrder \/ HandleOwnerCancelOrder

\* C27: an order is created pending, and once it is completed or cancelled no
\* order command of the owner changes its status again
C27_SettledStaysSettled ==
    [][/\ Len(orders') > Len(orders) =>
              orders'[Len(orders')].status = "pending"
       /\ OwnerOrderCommand =>
              \A i \in 1..Len(orders) :
                  orders[i].status \in {"completed", "cancelled"}
                      => orders'[i].status = orders[i].status]_vars

----------------------------------------------------------------------------
(* The unpaid filter *)

\* the orders whose payment is pending and that are not cancelled
UnpaidOrders ==
    {i \in 1..Len(orders) : /\ orders[i].paymentStatus = "pending"
                            /\ orders[i].status # "cancelled"}

\* C28: in every state of the ledger the filter unpaid lists exactly the
\* orders with paymentStatus pending and a status other than cancelled, and
\* the count for the filter is the number of these orders
C28_UnpaidFilter ==
    /\ \A listing \in getOrdersForOwner(orders, "unpaid", OwnerListLimit, now) :
           {listing[k] : k \in 1..Len(listing)} = UnpaidOrders
    /\ getOrdersCountForOwner(orders, "unpaid", now) = Cardinality(UnpaidOrders)

\* a cancelled order whose payment is pending lies beside a completed order
\* whose payment is pending
C28_Witness ==
    \E i, j \in 1..Len(orders) :
        /\ orders[i].status = "cancelled" /\ orders[i].paymentStatus = "pending"
        /\ orders[j].status = "completed" /\ orders[j].paymentStatus = "pending"

----------------------------------------------------------------------------
(* Requests of different phones *)

\* what the handler of the result writes when no other request is in flight
AloneWrite(table, result, t) ==
    CASE result.intent = "save_customer_name" ->
             updateCustomerName(table, result.data.phone, result.data.name)
      [] result.intent = "save_customer_location" ->
             updateCustomerLocation(table, result.data.phone,
                                    result.data.location)
      [] result.intent = "save_current_location" ->
             updateCurrentLocation(table, result.data.phone,
                                   result.data.currentLocation, t)
      [] OTHER -> table

\* what parseMessage returns for the request k on the table
ResolvedOn(table, k) ==
    parseMessage(table, menu, ownerPhone, now,
                 TextBody(racing.slot[k].body), racing.slot[k].From)

\* the request k has arrived and the other request, if it has arrived, is of
\* another phone
OtherPhone(k) ==
    /\ racing.slot[k].pc # "idle"
    /\ \/ racing.slot[3 - k].pc = "idle"
       \/ racing.slot[3 - k].From # racing.slot[k].From

\* C22: with the other request of another phone, at every point of every
\* interleaving the result of a request is the result on the table it started
\* from, and the row of its phone is the start row until the request is done
\* and from then on the row the request alone leaves; so no step of the other
\* request changes it
C22_PhonesIndependent ==
    \A k \in Slots :
        OtherPhone(k) =>
            /\ racing.slot[k].pc \in {"parsed", "found", "done"}
                   => racing.slot[k].result = ResolvedOn(racing.start, k)
            /\ TableOf(racing.rows)[racing.slot[k].From] =
                   IF racing.slot[k].pc = "done"
                   THEN AloneWrite(racing.start, ResolvedOn(racing.start, k),
                                   now)[racing.slot[k].From]
                   ELSE racing.start[racing.slot[k].From]

\* two requests of different phones that overlapped are done, and each has
\* written the row of its phone
C22_Witness ==
    /\ \A k \in Slots : /\ racing.slot[k].pc = "done"
                        /\ racing.slot[k].result.intent \in WritingIntents
    /\ racing.slot[1].From # racing.slot[2].From
    /\ racing.overlapped

----------------------------------------------------------------------------
(* Requests of one phone *)

\* both requests are done and they are of one phone
SamePhoneDone ==
    /\ \A k \in Slots : racing.slot[k].pc = "done"
    /\ racing.slot[1].From = racing.slot[2].From

\* the rows the two writes leave when one request follows the other
InEitherOrder(phone) ==
    { AloneWrite(AloneWrite(racing.start, racing.slot[1].result, now),
                 racing.slot[2].result, now)[phone],
      AloneWrite(AloneWrite(racing.start, racing.slot[2].result, now),
                 racing.slot[1].result, now)[phone] }

\* C23: once two requests of one phone are done, in whatever way they
\* interleaved, the result of each is the result on a table that existed, the
\* row of the phone is the row the two writes leave in one of the two orders,
\* and the phone has one row, or none when it had none and no request saved
\* a name
C23_LastWriteWins ==
    SamePhoneDone =>
        /\ \A k \in Slots :
               racing.slot[k].result \in {ResolvedOn(T, k) : T \in racing.past}
        /\ TableOf(racing.rows)[racing.slot[1].From]
               \in InEitherOrder(racing.slot[1].From)
        /\ Cardinality(RowsOf(racing.rows, racing.slot[1].From)) =
               IF \/ racing.start[racing.slot[1].From].exists
                  \/ \E k \in Slots :
                         racing.slot[k].result.intent = "save_customer_name"
               THEN 1 ELSE 0

\* two requests of a phone without a row both found the sender new and saved
\* different names
C23_Witness ==
    /\ SamePhoneDone
    /\ ~racing.start[racing.slot[1].From].exists
    /\ \A k \in Slots : racing.slot[k].result.intent = "save_customer_name"
    /\ racing.slot[1].result.data.name # racing.slot[2].result.data.name

----------------------------------------------------------------------------
(* The order of the session states *)

\* the place of a state in NEW -> NAME_CAPTURED -> ONBOARDED_STALE_SESSION ->
\* ACTIVE
Rank(state) ==
    CASE state = "NEW" -> 0
      [] state = "NAME_CAPTURED" -> 1
      [] state = "ONBOARDED_STALE_SESSION" -> 2
      [] OTHER -> 3

\* the state of the sender before and after the step
SenderBefore == SessionState(customers[req.From], now)
SenderAfter == SessionState(customers'[req.From], now')

----------------------------------------------------------------------------
(* Greetings of a new customer *)

\* the request in hand is a greeting of a sender who is NEW as it is resolved
GreetingOfNew ==
    /\ req.stage \in {"parsed", "replied"}
    /\ FromCustomer
    /\ HasBody(req.body)
    /\ Norm \in GreetingWords
    /\ req.checks.isNewCustomer

\* C32: a greeting of a NEW customer resolves to request_customer_name, and
\* handling it leaves the customer without a name
C32_GreetingIsNoName ==
    GreetingOfNew =>
        /\ req.result.intent = "request_customer_name"
        /\ req.stage = "replied" => ~Named(customers[req.From])

----------------------------------------------------------------------------
(* What a save handler writes *)

\* the columns of the sender's record; a phone without a row has the column
\* defaults and no name
Columns(c) == IF c.exists THEN c ELSE NewRow(<< >>)

\* the step leaves the records of the other phones as they are
OthersKept ==
    \A p \in (DOMAIN customers) \ {req.From} : customers'[p] = customers[p]

\* C33: handling save_customer_name changes the name of the sender's record
\* and nothing else, save_customer_location the home location and nothing
\* else, save_current_location the current location, lastLocationUpdate (the
\* time of the clock) and sessionActive (true) and nothing else; the records
\* of the other phones are unchanged
C33_SaveWritesOwnFields ==
    [][/\ HandleSaveCustomerName =>
              /\ Columns(customers'[req.From]) =
                     [Columns(customers[req.From]) EXCEPT
                         !.name = customers'[req.From].name]
              /\ OthersKept
       /\ HandleSaveCustomerLocation =>
              /\ Columns(customers'[req.From]) =
                     [Columns(customers[req.From]) EXCEPT
                         !.location = customers'[req.From].location]
              /\ OthersKept
       /\ HandleSaveCurrentLocation =>
              /\ Columns(customers'[req.From]) =
                     [Columns(customers[req.From]) EXCEPT
                         !.currentLocation = customers'[req.From].currentLocation,
                         !.lastLocationUpdate = now,
                         !.sessionActive = TRUE]
              /\ OthersKept]_vars

\* a name was saved for a sender whose record held a home location before
C33_Witness ==
    /\ req.stage = "replied"
    /\ req.result.intent = "save_customer_name"
    /\ customers[req.From].name = req.result.data.name
    /\ customers[req.From].location # << >>

----------------------------------------------------------------------------
(* Onboarding does not go back *)

----------------------------------------------------------------------------
(* Payment commands after the payment *)

\* the payment columns of an order
PaymentOf(o) ==
    [paymentStatus |-> o.paymentStatus, paymentMethod |-> o.paymentMethod,
     paymentId |-> o.paymentId]

\* the step is the handling of a customer payment command
PaymentCommandHandled ==
    HandlePaymentMethodSelection \/ HandlePaymentConfirmation

\* C35: the handling of a payment command leaves the payment columns of every
\* order that is paid as they are
C35_PaidIsFinal ==
    [][PaymentCommandHandled =>
           \A i \in 1..Len(orders) :
               orders[i].paymentStatus = "paid"
                   => PaymentOf(orders'[i]) = PaymentOf(orders[i])]_vars

----------------------------------------------------------------------------
(* Whose order a payment command touches *)

\* the orders whose payment columns the step changes
PaymentChanged ==
    {i \in 1..Len(orders) : PaymentOf(orders'[i]) # PaymentOf(orders[i])}

----------------------------------------------------------------------------
(* Who is the owner *)

\* C37: with the owner phone unset, no request resolves to an owner command,
\* and every request that is not a payment command goes through the three
\* checks of the gate, a request without a sender included
C37_NoOwnerWhenUnset ==
    (Parsed /\ ownerPhone = Undefined) =>
        /\ req.result.intent \notin OwnerIntents
        /\ NonPayment => ~IsNull(req.checks)

----------------------------------------------------------------------------
(* The catalog and the orders *)

\* the catalog offers the item of an order line at the price of the line
OfferedAt(catalog, line) ==
    \E i \in 1..Len(catalog) :
        /\ catalog[i].id = line.menuId
        /\ catalog[i].available
        /\ catalog[i].price = line.price

\* the step inserted an order
OrderCreated == Len(orders') = Len(orders) + 1

\* C38: every line of an order is an item the catalog offers, at the
\* catalog's price, at the moment the order is inserted
C38_OrderFromCatalog ==
    [][OrderCreated =>
          \A k \in 1..Len(orders'[Len(orders')].items) :
              OfferedAt(menu, orders'[Len(orders')].items[k])]_vars

----------------------------------------------------------------------------
(* The prices of the menu *)

\* C39: whatever menu commands the owner sends, the price of every item of
\* the menu stays above 0
C39_PricesPositive ==
    \A i \in 1..Len(menu) : menu[i].price > 0

----------------------------------------------------------------------------
(* What the customer is told *)

\* the reply tells the customer that the value was taken
ConfirmsSave(text) ==
    text \in {NameConfirmation, NameCaught,
              LocationConfirmation, LocationCaught,
              CurrentLocationConfirmation, CurrentLocationCaught}

\* the row of the sender holds the value of the save in hand
HoldsValue(c, result) ==
    /\ c.exists
    /\ CASE result.intent = "save_customer_name" ->
                c.name = Trim(result.data.name)
         [] result.intent = "save_customer_location" ->
                c.location = Trim(result.data.location)
         [] result.intent = "save_current_location" ->
                /\ c.currentLocation = Trim(result.data.currentLocation)
                /\ c.sessionActive
         [] OTHER -> FALSE

\* a save handler returned its reply
SaveAnswered ==
    /\ req.stage = "parsed"
    /\ req.result.intent \in {"save_customer_name", "save_customer_location",
                              "save_current_location"}
    /\ req'.stage = "replied"

\* C40: a save handler answers with a confirmation only if the row of the
\* sender holds the value afterwards
C40_ConfirmedOnlyIfSaved ==
    [][(SaveAnswered /\ ConfirmsSave(req'.reply)) =>
           HoldsValue(customers'[req.From], req.result)]_vars

====
